---- MODULE Spec2Model ----
(***************************************************************************)
(* ChannelWatch core: the Channel-Watching detector with its Session       *)
(* Store, the Stream Tracker singleton and the cleanup threads; the job    *)
(* cache of JobInfoProvider; the VOD-Watching detector.                    *)
(*                                                                         *)
(* Time.  The code stores time.time() and only ever compares               *)
(* "time.time() - stored" with a constant.  The model stores that          *)
(* difference, the age of each timestamp, and Tick adds the elapsed        *)
(* seconds to every age.  Ages saturate at AgeCap, one second past the     *)
(* largest TTL of the code, beyond which no comparison can tell them       *)
(* apart.                                                                  *)
(*                                                                         *)
(* Activity strings.  An activities.set Value is modelled by the fields    *)
(* the parsing helpers extract from it: the channel number, the device     *)
(* name and the IP address.                                                *)
(***************************************************************************)
EXTENDS Integers, Sequences, FiniteSets, TLC

None == "None"

\* ------------------------------------------------------------------ bounds
MaxEvents == 2
MaxTicks == 1
MaxRecEvents == 3
MaxWaits == 6
MaxLines == 2
MaxReads == 3
MaxCacheTicks == 1
MaxWdEvents == 2
MaxCalls == 3

\* ------------------------------------------------------- program constants
job_cache_ttl == 3600
vod_alert_cooldown == 300
vod_significant_threshold == 300
vod_stale_after == 3600
am_cleanup_interval == 3600
rec_alert_cooldown == 60
retry_interval == 2
schedule_margin == 30
max_wait_time == 600
check_interval == 120
cooldown_period == 3600
percent_threshold == 10
gb_threshold == 50
initial_reconnect_delay == 5
max_reconnect_delay == 60
channel_cache_ttl == 86400
program_cache_ttl == 86400
vod_cache_ttl == 86400
\* thirty sleeps of ten seconds
watchdog_period == 30 * 10
stall_after == 1800
report_interval == 3600
lock_stuck_after == 1200
pending_stale_after == 21600
COOLDOWN_PERIOD == 5
history_limit == 500
alert_cooldown == 5
session_ttl == 14400
event_ttl == 300
notification_ttl == 86400
max_age == 300
cleanup_interval == 3600
AgeCap == notification_ttl + 1

\* Elapsed seconds a clock step can take: within the cooldown, past the
\* tracker's max_age, past every TTL.
TickSteps == {4, 301, AgeCap}

\* ----------------------------------------------------------------- inputs
Sessions == {"s1", "s2"}
Channels == {7, 9}
DeviceNames == {"LivingRoom"}
IPs == {"10.0.0.1"}
UnknownDevice == "Unknown device"

\* A Value with neither a device name nor an IP has no tracking key.
AnonValue == [ch |-> 7, dev |-> None, ip |-> None]
\* "Watching ch<ch> ... from LivingRoom (10.0.0.1)" on either channel, and
\* "Watching ch7 from <ip>" of the clients that have no device name.
WatchValues ==
    { [ch |-> c, dev |-> "LivingRoom", ip |-> "10.0.0.1"] : c \in Channels }
    \cup { [ch |-> 7, dev |-> None, ip |-> i] : i \in IPs }
    \cup {AnonValue}
\* The empty Value of an end event.
EmptyValue == [ch |-> 0, dev |-> None, ip |-> None]

Events == [Name : Sessions, Value : WatchValues \cup {EmptyValue}]
NoEvent == [Name |-> None, Value |-> EmptyValue]

CleanupThreads == {"auto"}

VARIABLES
    \* SessionManager
    active_sessions, processing_events, notification_history,
    \* StreamTracker
    active_streams, device_sessions, last_count, stream_count_file,
    \* ChannelInfoProvider
    channel_cache,
    \* settings.stream_count
    stream_count_enabled,
    \* channel_watching.event_lock: None or the holding thread
    event_lock,
    \* the SSE thread inside ChannelWatchingAlert.process_event
    evt,
    \* the cleanup threads: position, captured count, age of last_cleanup
    cl,
    \* model clock budget and event budget
    ticks, budget,
    \* observations: what the detector emitted
    obs

VARIABLES
    \* JobInfoProvider: _jobs_cache (the ids cached), the age of
    \* _jobs_cache_time, _lock (None or the holding thread), and the
    \* threads that call the provider
    jobs_cache, jobs_cache_age, job_lock, jt

cwVars == <<active_sessions, processing_events, notification_history,
            active_streams, device_sessions, last_count, stream_count_file,
            channel_cache, stream_count_enabled, event_lock, evt, cl,
            ticks, budget, obs>>

VARIABLES
    \* VODWatchingAlert: active_sessions and identifier_ip_cache,
    \* settings.vod_device_ip, the age of AlertManager.last_cleanup, the
    \* budgets of events and clock steps, and what the detector did with
    \* the last event
    vod_active_sessions, vod_identifier_ip_cache, vod_device_ip,
    am_last_cleanup, vod_budget, vod_ticks, vod_obs

jobVars == <<jobs_cache, jobs_cache_age, job_lock, jt>>
vodVars == <<vod_active_sessions, vod_identifier_ip_cache, vod_device_ip,
             am_last_cleanup, vod_budget, vod_ticks, vod_obs>>

VARIABLES
    \* AlertManager: alert_instances (the registered detectors, in order)
    \* and the read loop inside process_event
    alert_instances, dispatch

amVars == <<alert_instances, dispatch>>

VARIABLES
    \* RecordingEventsAlert: the three partitions, the detector's own
    \* SessionManager history (notification key -> age), its four alert
    \* toggles and stream_count, the handler position (which holds
    \* event_lock while "locked") and the retry worker position
    scheduled_recordings, active_recordings, pending_recordings,
    rec_history, rec_settings, rec_evt, rw,
    \* the DVR's view of each recording file, as get_recording_by_id sees it
    recordings,
    \* budget of long sleeps; the alerts handed to send_alert and the events
    \* handed to _handle_event, in order (observation only)
    rec_ticks, rec_alerts, rec_trace,
    \* where it is switched on: per notification key the age of the last
    \* alert that went out, and what the latest such alert found
    \* (observation only)
    rec_obs

recVars == <<scheduled_recordings, active_recordings, pending_recordings,
             rec_history, rec_settings, rec_evt, rw, recordings,
             rec_ticks, rec_alerts, rec_trace, rec_obs>>

VARIABLES
    \* DiskSpaceAlert: the alert_sent latch, the age of last_alert_time and
    \* what the last poll saw and did (observation only)
    ds_alert_sent, ds_last_alert_age, ds_obs,
    \* its threads: the running flag, monitoring_thread, the polling loops
    \* started so far, the recovery threads that wait, the health checker's
    \* position and the age of last_successful_check
    dm

diskVars == <<ds_alert_sent, ds_last_alert_age, ds_obs, dm>>

VARIABLES
    \* NotificationManager: the provider registry, the providers that are
    \* configured, and send_notification's loop
    providers, configured, send

nmVars == <<providers, configured, send>>

VARIABLES
    \* EventMonitor: the thread of _monitor_events_loop (its position,
    \* running, connected, reconnect_delay), the stats counters, and what
    \* the loop did (observation only)
    em, em_stats, em_obs

emVars == <<em, em_stats, em_obs>>

VARIABLES
    \* the info caches, the threads reading them, what the last read
    \* returned (observation only) and the budgets of reads and clock steps
    cache, rd, cache_obs, cache_budget

cacheVars == <<cache, rd, cache_obs, cache_budget>>

VARIABLES
    \* the watchdog of RecordingEventsAlert: what _watchdog_loop reads and
    \* keeps, _lock_health, and what its last pass found and did
    \* (observation only)
    wd, lock_health, wd_obs

wdVars == <<wd, lock_health, wd_obs>>

VARIABLES
    \* the activity recorder: the array in activity_history.json (each
    \* record stands as the serial number of its timestamp),
    \* NOTIFICATION_HISTORY as ages, the serial of the next timestamp, the
    \* calls made, and what the last call did (observation only)
    act_file, act_seen, act_next, act_calls, act_obs,
    \* the recorders that run on their own threads: where each stands, the
    \* list it loaded and the record it made, and the records saved so far
    act_rec

actVars == <<act_file, act_seen, act_next, act_calls, act_obs, act_rec>>

\* the components added after the detectors
extVars == <<emVars, cacheVars, wdVars, actVars>>

vars == <<cwVars, jobVars, vodVars, amVars, recVars, diskVars, nmVars, extVars>>

\* what the actions of each component leave alone
otherThanCW == <<jobVars, vodVars, amVars, recVars, diskVars, nmVars, extVars>>
otherThanJob == <<cwVars, vodVars, amVars, recVars, diskVars, nmVars, extVars>>
otherThanVOD == <<cwVars, jobVars, amVars, recVars, diskVars, nmVars, extVars>>
otherThanAM == <<cwVars, jobVars, vodVars, recVars, diskVars, nmVars, extVars>>
otherThanRec == <<cwVars, jobVars, vodVars, amVars, diskVars, nmVars, extVars>>
otherThanDisk == <<cwVars, jobVars, vodVars, amVars, recVars, nmVars, extVars>>
otherThanNM == <<cwVars, jobVars, vodVars, amVars, recVars, diskVars, extVars>>
otherThanEM == <<cwVars, jobVars, vodVars, amVars, recVars, diskVars, nmVars,
                 cacheVars, wdVars, actVars>>
otherThanCache == <<cwVars, jobVars, vodVars, amVars, recVars, diskVars, nmVars,
                    emVars, wdVars, actVars>>
otherThanAct == <<cwVars, jobVars, vodVars, amVars, recVars, diskVars, nmVars,
                  emVars, cacheVars, wdVars>>
\* the watchdog acts on its own variables and on the detector's
otherThanWDRec == <<cwVars, jobVars, vodVars, amVars, diskVars, nmVars,
                    emVars, cacheVars, actVars>>

\* ------------------------------------------------------------------ helpers
Cap(a) == IF a > AgeCap THEN AgeCap ELSE a

Put(f, k, v) == [x \in DOMAIN f \cup {k} |-> IF x = k THEN v ELSE f[x]]
Drop(f, ks) == [x \in DOMAIN f \ ks |-> f[x]]

\* helpers/parsing.py
extract_channel_number(value) == value.ch
extract_device_name(value) == value.dev
extract_ip_address(value) == value.ip

\* StreamTracker.extract_device_name: whatever follows "from", IP or not.
tracker_device_name(value) ==
    IF value = EmptyValue THEN None
    ELSE IF value.dev # None THEN value.dev ELSE value.ip

\* the tracking key "ch<number>-<device-or-ip>"
TrackingKey(value) ==
    <<extract_channel_number(value),
      IF extract_device_name(value) # None
      THEN extract_device_name(value) ELSE extract_ip_address(value)>>

Keys == Channels \X (DeviceNames \cup IPs)

\* SessionManager
add_session(sessions, sid, info) ==
    Put(sessions, sid, [number |-> info.number, device |-> info.device,
                        ip |-> info.ip, timestamp |-> 0])
has_session(sessions, sid) == sid \in DOMAIN sessions
remove_session(sessions, sid) == Drop(sessions, {sid})
is_event_processing(events, key) == key \in DOMAIN events
mark_event_processing(events, key) == Put(events, key, 0)
complete_event_processing(events, key) == Drop(events, {key})
record_notification(history, key) == Put(history, key, 0)
was_notification_sent(history, key, within_seconds) ==
    IF key \notin DOMAIN history THEN FALSE
    ELSE history[key] < within_seconds

\* AlertFormatter
should_send_notification_nocooldown(history, key, cooldown_seconds) == TRUE
should_send_notification(history, key, cooldown_seconds) ==
    ~was_notification_sent(history, key, cooldown_seconds)

\* ChannelWatchingAlert._is_new_session
is_new_session(sessions, sid, channel_number) ==
    IF ~has_session(sessions, sid) THEN TRUE
    ELSE sessions[sid].number # channel_number

\* StreamTracker.process_activity, the part under self.lock: the new
\* active_streams and device_sessions.
pa_is_watching(value) == value # EmptyValue
pa_streams(streams, devices, value, sid) ==
    IF pa_is_watching(value) /\ tracker_device_name(value) # None
    THEN Put(streams, sid, [device |-> tracker_device_name(value),
                            last_seen |-> 0])
    ELSE IF ~pa_is_watching(value) /\ sid \in DOMAIN streams
         THEN Drop(streams, {sid})
         ELSE streams
pa_devices(streams, devices, value, sid) ==
    IF pa_is_watching(value) /\ tracker_device_name(value) # None
    THEN Put(devices, tracker_device_name(value), sid)
    ELSE IF ~pa_is_watching(value) /\ sid \in DOMAIN streams
         THEN LET device == streams[sid].device
              IN IF device \in DOMAIN devices /\ devices[device] = sid
                 THEN Drop(devices, {device}) ELSE devices
         ELSE devices

\* StreamTracker.cleanup_stale_sessions, the part under self.lock.
stale_sessions(streams) == {s \in DOMAIN streams : streams[s].last_seen > max_age}
devices_to_remove(streams, devices) ==
    {d \in DOMAIN devices :
        \E s \in stale_sessions(streams) : streams[s].device = d /\ devices[d] = s}

\* CleanupMixin.cleanup_dict_by_time / cleanup_dict_by_timestamp
cleanup_dict_by_time_keep(data, ttl) == data
cleanup_dict_by_time(data, ttl) ==
    Drop(data, {k \in DOMAIN data : data[k].timestamp > ttl})
cleanup_dict_by_timestamp(data, ttl) ==
    Drop(data, {k \in DOMAIN data : data[k] > ttl})

IdleEvt == [pc |-> "idle", ev |-> NoEvent, stream_changed |-> FALSE,
            count_changed |-> FALSE, new_count |-> 0]

\* What the detector was seen to do.  Per handled watching event: the
\* channels the device was on when the event arrived (hadOld), the "Exited"
\* lines logged (exited), the alert delivered (alert), who held the event
\* lock when send_notification was called (sendLock) and when an HTTP
\* request went to the DVR (httpLock).  Across events: the age of the last
\* alert of each key, the previous watching event and its alert count, and
\* whether a cleanup sweep removed a session since.
NoAlert == [key |-> <<0, None>>, number |-> 0, device |-> None,
            gap |-> AgeCap, exitedBefore |-> {}]
NoObs == [hadOld |-> {}, exited |-> {}, alert |-> NoAlert,
          sendLock |-> "nosend", httpLock |-> "nohttp",
          lastAlertAge |-> << >>,
          lastEv |-> NoEvent, lastAlerts |-> 0, dup |-> FALSE, pair |-> -1,
          swept |-> FALSE, pairSwept |-> FALSE, pairFirst |-> 0,
          done |-> FALSE]

\* ------------------------------------------------------------------- Init
InitCW ==
    /\ active_sessions = << >>
    /\ processing_events = << >>
    /\ notification_history = << >>
    /\ active_streams = << >>
    /\ device_sessions = << >>
    /\ last_count = 0
    /\ stream_count_file = 0
    /\ channel_cache \in {{}, Channels}
    /\ stream_count_enabled \in BOOLEAN
    /\ event_lock = None
    /\ evt = IdleEvt
    /\ cl = [t \in CleanupThreads |->
               [pc |-> "sleep", new_count |-> 0,
                last_cleanup |-> IF t = "auto" THEN AgeCap ELSE 0]]
    /\ ticks = 0
    /\ budget = MaxEvents
    /\ obs = NoObs

\* ---------------------------------------------------------------- ageing
AgeMap(m, d) == [k \in DOMAIN m |-> Cap(m[k] + d)]
AgeSessions(m, d) ==
    [k \in DOMAIN m |-> [m[k] EXCEPT !.timestamp = Cap(@ + d)]]
AgeStreams(m, d) ==
    [k \in DOMAIN m |-> [m[k] EXCEPT !.last_seen = Cap(@ + d)]]

\* ------------------------------------------------- observation bookkeeping
StoreDevice(value) ==
    IF extract_device_name(value) # None
    THEN extract_device_name(value) ELSE UnknownDevice

ObsBegin(o, e) ==
    [o EXCEPT !.hadOld = IF e.Value.dev = None THEN {}
                         ELSE {active_sessions[s].number :
                                 s \in {x \in DOMAIN active_sessions :
                                   /\ active_sessions[x].device = e.Value.dev
                                   /\ active_sessions[x].number # e.Value.ch}},
              !.exited = {}, !.alert = NoAlert,
              !.sendLock = "nosend", !.httpLock = "nohttp",
              !.dup = (e = o.lastEv), !.pair = -1, !.pairSwept = FALSE,
              !.pairFirst = 0, !.done = FALSE]
ObsDone(o, e, alerts) ==
    [o EXCEPT !.pair = IF o.dup THEN o.lastAlerts + alerts ELSE -1,
              !.pairSwept = o.dup /\ o.swept,
              !.pairFirst = IF o.dup THEN o.lastAlerts ELSE 0,
              !.lastEv = e, !.lastAlerts = alerts, !.swept = FALSE,
              !.done = TRUE]

\* ------------------------------------------- ChannelWatchingAlert, watching
\* process_event -> _handle_event up to the tracker's locked section.
CW_HandleBegin(e) ==
    /\ evt.pc = "idle"
    /\ budget > 0
    /\ e.Value # EmptyValue
    /\ event_lock = None
    /\ budget' = budget - 1
    /\ LET value == e.Value
           sid == e.Name
           device_identifier == TrackingKey(value)[2]
           old_count == Cardinality(DOMAIN device_sessions)
           new_streams == pa_streams(active_streams, device_sessions, value, sid)
           new_devices == pa_devices(active_streams, device_sessions, value, sid)
           new_count == Cardinality(DOMAIN new_devices)
       IN IF device_identifier = None
          THEN \* return False, the with-block releases the lock
               /\ evt' = IdleEvt
               /\ event_lock' = None
               /\ obs' = ObsDone(ObsBegin(obs, e), e, 0)
               /\ UNCHANGED <<active_streams, device_sessions, last_count>>
          ELSE /\ event_lock' = "event"
               /\ obs' = ObsBegin(obs, e)
               /\ IF stream_count_enabled
                  THEN /\ active_streams' = new_streams
                       /\ device_sessions' = new_devices
                       /\ last_count' = IF old_count # new_count
                                        THEN new_count ELSE last_count
                       /\ evt' = [pc |-> "cw_gate", ev |-> e,
                                  stream_changed |-> old_count # new_count,
                                  count_changed |-> old_count # new_count,
                                  new_count |-> new_count]
                  ELSE /\ evt' = [IdleEvt EXCEPT !.pc = "cw_gate", !.ev = e]
                       /\ UNCHANGED <<active_streams, device_sessions, last_count>>
    /\ UNCHANGED <<active_sessions, processing_events, notification_history,
                   stream_count_file, channel_cache, stream_count_enabled,
                   cl, ticks>>
    /\ UNCHANGED otherThanCW

\* The sessions of the same device other than sid (the scan of
\* _process_watching_event).
device_sessions_of_none(sessions, sid, device_name) == {}
device_sessions_of(sessions, sid, device_name) ==
    {s \in DOMAIN sessions : s # sid /\ sessions[s].device = device_name}

\* _handle_event's gates after the tracker: the key is being processed, the
\* key is in its cooldown, or the stream count changed for a known session.
GateClosed ==
    LET value == evt.ev.Value
        key == TrackingKey(value)
    IN \/ is_event_processing(processing_events, key)
       \/ ~should_send_notification(notification_history, key, alert_cooldown)
       \/ /\ evt.stream_changed
          /\ stream_count_enabled
          /\ ~is_new_session(active_sessions, evt.ev.Name,
                             extract_channel_number(value))

\* _process_watching_event: the session is already on this channel.
SameChannel_never == FALSE
SameChannel ==
    /\ has_session(active_sessions, evt.ev.Name)
    /\ active_sessions[evt.ev.Name].number = extract_channel_number(evt.ev.Value)

\* process_activity's pending _write_stream_count.
WriteCount ==
    stream_count_file' = IF evt.count_changed THEN evt.new_count
                         ELSE stream_count_file

\* Leaving _handle_event: the with-block releases the event lock.
CW_Return(o, alerts) ==
    /\ evt' = IdleEvt
    /\ event_lock' = None
    /\ obs' = ObsDone(o, evt.ev, alerts)

\* process_activity's file write, then _handle_event returns False at one
\* of its gates.
CW_Suppress ==
    /\ evt.pc = "cw_gate"
    /\ GateClosed
    /\ WriteCount
    /\ CW_Return(obs, 0)
    /\ UNCHANGED <<active_sessions, processing_events, notification_history,
                   active_streams, device_sessions, last_count, channel_cache,
                   stream_count_enabled, cl, ticks, budget>>
    /\ UNCHANGED otherThanCW

\* process_activity's file write, then _process_watching_event refreshes
\* the session that is already on this channel.
CW_Refresh ==
    /\ evt.pc = "cw_gate"
    /\ ~GateClosed
    /\ SameChannel
    /\ WriteCount
    /\ active_sessions' =
          add_session(active_sessions, evt.ev.Name, active_sessions[evt.ev.Name])
    /\ CW_Return(obs, 0)
    /\ UNCHANGED <<processing_events, notification_history,
                   active_streams, device_sessions, last_count, channel_cache,
                   stream_count_enabled, cl, ticks, budget>>
    /\ UNCHANGED otherThanCW

\* process_activity's file write, then _process_watching_event to its end:
\* the sessions of the device are logged as exited and removed, the channel
\* is looked up (a cache hit, or cache_channels() asks the DVR, which answers
\* 200 with the channel list, answers something else, or makes requests.get
\* raise), the alert is sent (result: whether any provider delivered), and on
\* success the notification is recorded and the session upserted.  The
\* tracking key is marked before and completed after, all under the event
\* lock taken by CW_HandleBegin.
CW_Alert(outcome, result) ==
    /\ evt.pc = "cw_gate"
    /\ ~GateClosed
    /\ ~SameChannel
    /\ (outcome = "hit") <=> (extract_channel_number(evt.ev.Value) \in channel_cache)
    /\ WriteCount
    /\ LET value == evt.ev.Value
           sid == evt.ev.Name
           key == TrackingKey(value)
           channel_number == extract_channel_number(value)
           device_name == StoreDevice(value)
           old == device_sessions_of(active_sessions, sid, device_name)
           exited == {<<active_sessions[s].device, active_sessions[s].number>> :
                        s \in old}
           marked == mark_event_processing(processing_events, key)
           success == outcome # "raise" /\ result
           o1 == [obs EXCEPT
                    !.exited = exited,
                    !.httpLock = IF outcome = "hit" THEN @ ELSE event_lock,
                    !.sendLock = IF outcome = "raise" THEN @ ELSE event_lock,
                    !.alert = IF success
                              THEN [key |-> key, number |-> channel_number,
                                    device |-> device_name,
                                    gap |-> IF key \in DOMAIN obs.lastAlertAge
                                            THEN obs.lastAlertAge[key] ELSE AgeCap,
                                    exitedBefore |-> exited]
                              ELSE @,
                    !.lastAlertAge = IF success THEN Put(@, key, 0) ELSE @]
       IN /\ channel_cache' = IF outcome = "200" THEN Channels ELSE channel_cache
          /\ active_sessions' =
                IF success
                THEN add_session(Drop(active_sessions, old), sid,
                                 [number |-> channel_number,
                                  device |-> device_name,
                                  ip |-> extract_ip_address(value)])
                ELSE Drop(active_sessions, old)
          /\ notification_history' =
                IF success THEN record_notification(notification_history, key)
                ELSE notification_history
          /\ processing_events' = complete_event_processing(marked, key)
          /\ CW_Return(o1, IF success THEN 1 ELSE 0)
    /\ UNCHANGED <<active_streams, device_sessions, last_count,
                   stream_count_enabled, cl, ticks, budget>>
    /\ UNCHANGED otherThanCW

\* ------------------------------------------ ChannelWatchingAlert, end event
\* process_event -> process_end_event up to the tracker's locked section.
CW_EndBegin(e) ==
    /\ evt.pc = "idle"
    /\ budget > 0
    /\ e.Value = EmptyValue
    /\ budget' = budget - 1
    /\ LET sid == e.Name
           old_count == Cardinality(DOMAIN device_sessions)
           new_streams == pa_streams(active_streams, device_sessions, EmptyValue, sid)
           new_devices == pa_devices(active_streams, device_sessions, EmptyValue, sid)
           new_count == Cardinality(DOMAIN new_devices)
       IN IF ~has_session(active_sessions, sid)
          THEN UNCHANGED <<active_sessions, active_streams, device_sessions,
                           last_count, evt>>
          ELSE IF stream_count_enabled
          THEN /\ active_streams' = new_streams
               /\ device_sessions' = new_devices
               /\ last_count' = IF old_count # new_count
                                THEN new_count ELSE last_count
               /\ evt' = [pc |-> "end_write", ev |-> e,
                          stream_changed |-> old_count # new_count,
                          count_changed |-> old_count # new_count,
                          new_count |-> new_count]
               /\ UNCHANGED active_sessions
          ELSE /\ active_sessions' = remove_session(active_sessions, sid)
               /\ UNCHANGED <<active_streams, device_sessions, last_count, evt>>
    /\ obs' = [obs EXCEPT !.lastEv = NoEvent, !.dup = FALSE, !.pair = -1,
                          !.pairSwept = FALSE, !.pairFirst = 0,
                          !.done = FALSE]
    /\ UNCHANGED <<processing_events, notification_history, stream_count_file,
                   channel_cache, stream_count_enabled, event_lock, cl, ticks>>
    /\ UNCHANGED otherThanCW

\* process_activity's file write, then remove_session.
CW_EndWrite ==
    /\ evt.pc = "end_write"
    /\ stream_count_file' = IF evt.count_changed THEN evt.new_count
                            ELSE stream_count_file
    /\ active_sessions' = remove_session(active_sessions, evt.ev.Name)
    /\ evt' = IdleEvt
    /\ UNCHANGED <<processing_events, notification_history, active_streams,
                   device_sessions, last_count, channel_cache,
                   stream_count_enabled, event_lock, cl, ticks, budget, obs>>
    /\ UNCHANGED otherThanCW

\* ------------------------------------------------------------ run_cleanup
\* The loop of a cleanup thread finds the interval elapsed and run_cleanup
\* sweeps the three maps of the Session Store.
CL_Sweep(t) ==
    /\ cl[t].pc = "sleep"
    /\ cl[t].last_cleanup >= cleanup_interval
    /\ active_sessions' = cleanup_dict_by_time(active_sessions, session_ttl)
    /\ processing_events' = cleanup_dict_by_timestamp(processing_events, event_ttl)
    /\ notification_history' =
          cleanup_dict_by_timestamp(notification_history, notification_ttl)
    /\ cl' = [cl EXCEPT ![t].pc = IF stream_count_enabled THEN "cl_tracker"
                                  ELSE "sleep",
                        ![t].last_cleanup = 0]
    /\ obs' = [obs EXCEPT !.swept = @ \/ (active_sessions' # active_sessions)]
    /\ UNCHANGED <<active_streams, device_sessions, last_count,
                   stream_count_file, channel_cache, stream_count_enabled,
                   event_lock, evt, ticks, budget>>
    /\ UNCHANGED otherThanCW

\* StreamTracker.cleanup_stale_sessions under self.lock.
CL_Tracker(t) ==
    /\ cl[t].pc = "cl_tracker"
    /\ LET stale == stale_sessions(active_streams)
           new_devices == Drop(device_sessions,
                               devices_to_remove(active_streams, device_sessions))
       IN /\ active_streams' = Drop(active_streams, stale)
          /\ device_sessions' = new_devices
          /\ cl' = [cl EXCEPT ![t].pc = IF Cardinality(stale) > 0
                                        THEN "cl_write" ELSE "sleep",
                              ![t].new_count = Cardinality(DOMAIN new_devices)]
    /\ UNCHANGED <<active_sessions, processing_events, notification_history,
                   last_count, stream_count_file, channel_cache,
                   stream_count_enabled, event_lock, evt, ticks, budget, obs>>
    /\ UNCHANGED otherThanCW

\* cleanup_stale_sessions, after the lock: _write_stream_count(new_count).
CL_Write(t) ==
    /\ cl[t].pc = "cl_write"
    /\ stream_count_file' = cl[t].new_count
    /\ cl' = [cl EXCEPT ![t].pc = "sleep", ![t].new_count = 0]
    /\ UNCHANGED <<active_sessions, processing_events, notification_history,
                   active_streams, device_sessions, last_count, channel_cache,
                   stream_count_enabled, event_lock, evt, ticks, budget, obs>>
    /\ UNCHANGED otherThanCW

\* ------------------------------------------------------------------- time
Elapse(d) ==
    /\ UNCHANGED otherThanCW
    /\ active_sessions' = AgeSessions(active_sessions, d)
    /\ processing_events' = AgeMap(processing_events, d)
    /\ notification_history' = AgeMap(notification_history, d)
    /\ active_streams' = AgeStreams(active_streams, d)
    /\ cl' = [t \in CleanupThreads |->
                [cl[t] EXCEPT !.last_cleanup = Cap(@ + d)]]
    /\ obs' = [obs EXCEPT !.lastAlertAge = AgeMap(@, d)]
    /\ UNCHANGED <<device_sessions, last_count, stream_count_file,
                   channel_cache, stream_count_enabled, event_lock, evt, budget>>

\* Time is read between operations: a handler or a cleanup pass takes far
\* less than the shortest step of the clock.
Tick ==
    /\ evt.pc = "idle"
    /\ \A t \in CleanupThreads : cl[t].pc = "sleep"
    /\ ticks < MaxTicks
    /\ ticks' = ticks + 1
    /\ \E d \in TickSteps : Elapse(d)

\* More than the longest TTL goes by.
LongTick ==
    /\ evt.pc = "idle"
    /\ \A t \in CleanupThreads : cl[t].pc = "sleep"
    /\ Elapse(AgeCap)
    /\ UNCHANGED ticks

\* ======================================================== VODWatchingAlert
\* alerts/vod_watching.py.  An event Name is its "-"-separated parts; a part
\* is a text that may begin with "file".
Part(pre, rest) == [pre |-> pre, rest |-> rest]
VodFiles == {"f1", "f2"}
VodIdents == {"a"}
\* "6-file-<id>-<ident>", "7-file<id>-<ident>", "6-file-<id>" (no
\* identifier) and the Name of a live stream, "6-stream-<ident>".
VodNames ==
    { <<Part("", "6"), Part("file", ""), Part("", f), Part("", i)>> :
          f \in VodFiles, i \in VodIdents }
    \cup { <<Part("", "7"), Part("file", f), Part("", i)>> :
          f \in VodFiles, i \in VodIdents }
    \cup { <<Part("", "6"), Part("file", ""), Part("", "f1")>>,
           <<Part("", "6"), Part("", "stream"), Part("", "a")>> }

\* A Value: "Watching <title> from <dev> at <at>", the same without the
\* position, "Streaming <title> from <dev>" (at_text: whether its text
\* holds the letters "at"), or the empty Value of an end event.
VodPositions == {0, 60, 310}
NoAt == -1
VodEmpty == [kind |-> "", at |-> NoAt, dev |-> None, ip |-> None,
             at_text |-> FALSE]
VodValues ==
    { [kind |-> "Watching", at |-> p, dev |-> "iPad", ip |-> None,
       at_text |-> TRUE] : p \in VodPositions }
    \cup { [kind |-> "Watching", at |-> 0, dev |-> None, ip |-> "10.0.0.1",
            at_text |-> TRUE],
           [kind |-> "Watching", at |-> NoAt, dev |-> "iPad", ip |-> None,
            at_text |-> TRUE],
           [kind |-> "Streaming", at |-> NoAt, dev |-> "iPad", ip |-> None,
            at_text |-> TRUE],
           [kind |-> "Streaming", at |-> NoAt, dev |-> "iPad", ip |-> None,
            at_text |-> FALSE],
           VodEmpty }
VodEvents == [Name : VodNames, Value : VodValues]
VodAgeCap == vod_stale_after + 1
VodTickSteps == {100, vod_alert_cooldown, VodAgeCap}
NoKey == <<None, << >> >>

VodCap(a) == IF a > VodAgeCap THEN VodAgeCap ELSE a

\* BaseAlert._is_end_event (the Type is activities.set, the Name present)
is_end_event(e) == e.Value = VodEmpty

\* VODWatchingAlert._should_handle_event
is_file_event(name) ==
    \/ name[1] = Part("", "6") /\ name[2] = Part("file", "") /\ Len(name) >= 3
    \/ name[1] = Part("", "7") /\ name[2].pre = "file"
    \/ name[1] = Part("", "7") /\ \E k \in 1..Len(name) : name[k].pre = "file"
vod_should_handle_event(e) ==
    /\ is_file_event(e.Name)
    /\ \/ e.Value = VodEmpty
       \/ e.Value.kind \in {"Watching", "Streaming"} /\ e.Value.at_text

\* _handle_event's reading of the Name.  The two fallback patterns are raw
\* strings with a doubled backslash and match no Name of the DVR.
name_file_id(name) ==
    IF Len(name) >= 3 /\ name[2] = Part("file", "") THEN name[3].rest
    ELSE IF Len(name) >= 3 /\ name[2].pre = "file" THEN name[2].rest
    ELSE None
name_session_identifier(name) ==
    IF Len(name) >= 3 /\ name[2] = Part("file", "")
    THEN SubSeq(name, 4, Len(name))
    ELSE IF Len(name) >= 3 /\ name[2].pre = "file"
    THEN SubSeq(name, 3, Len(name))
    ELSE << >>
session_key(name) == <<name_file_id(name), name_session_identifier(name)>>

\* is_valid_ip_address of a session identifier
is_valid_ip_address(ident) == Len(ident) = 1 /\ ident[1].rest \in IPs

\* The timestamp of a session: a position, or the text "Streaming".
Position(p) == [streaming |-> FALSE, secs |-> p]
Streaming == [streaming |-> TRUE, secs |-> 0]
\* _parse_timestamp_to_seconds: "Streaming" holds an "m" and no digits
parse_timestamp_to_seconds(ts) == IF ts.streaming THEN 0 ELSE ts.secs

vod_abs(x) == IF x < 0 THEN -x ELSE x

\* _handle_event's cross-file switch: the sessions that stay.
vod_after_switch(sessions, file_id, ident) ==
    [k \in {x \in DOMAIN sessions :
              ~(sessions[x].session_identifier = ident
                /\ sessions[x].file_id # file_id)} |-> sessions[k]]

\* _process_watching_event's IP to store for the identifier.
determined_ip(value, ident) ==
    LET preferred == IF value.ip # None THEN value.ip
                     ELSE IF is_valid_ip_address(ident) THEN ident[1].rest
                     ELSE IF ident \in DOMAIN vod_identifier_ip_cache
                          THEN vod_identifier_ip_cache[ident] ELSE None
    IN IF vod_device_ip THEN preferred ELSE None

NewVodSession(value, file_id, ident, ts) ==
    [timestamp |-> ts, last_update |-> 0, last_notification |-> 0,
     device |-> IF value.dev # None THEN value.dev ELSE "Unknown",
     file_id |-> file_id,
     ip |-> IF value.ip # None THEN value.ip ELSE "Unknown",
     session_identifier |-> ident]

InitVOD ==
    /\ vod_active_sessions = << >>
    /\ vod_identifier_ip_cache = << >>
    /\ vod_device_ip = TRUE
    /\ am_last_cleanup = 0
    /\ vod_budget = MaxEvents
    /\ vod_ticks = 0
    /\ vod_obs = [ended |-> NoKey, had |-> FALSE, alert |-> FALSE,
                  route |-> "none", within |-> FALSE, moved |-> 0,
                  deliverable |-> FALSE, notified |-> << >>]

\* process_event with an empty Value: _is_end_event holds and
\* BaseAlert.process_end_event, which VODWatchingAlert does not override,
\* does nothing.
VOD_EndEvent(e) ==
    /\ vod_budget > 0
    /\ is_end_event(e)
    /\ vod_budget' = vod_budget - 1
    /\ vod_obs' = [ended |-> IF name_file_id(e.Name) # None
                                /\ name_session_identifier(e.Name) # << >>
                             THEN session_key(e.Name) ELSE NoKey,
                   had |-> session_key(e.Name) \in DOMAIN vod_active_sessions,
                   alert |-> FALSE, route |-> "end",
                   within |-> FALSE, moved |-> 0, deliverable |-> FALSE,
                   notified |-> vod_obs.notified]
    /\ UNCHANGED <<vod_active_sessions, vod_identifier_ip_cache,
                   vod_device_ip, am_last_cleanup, vod_ticks, otherThanVOD>>

\* process_event with a Value that _should_handle_event turns down.
VOD_NotHandled(e) ==
    /\ vod_budget > 0
    /\ ~is_end_event(e)
    /\ ~vod_should_handle_event(e)
    /\ vod_budget' = vod_budget - 1
    /\ vod_obs' = [ended |-> NoKey, had |-> FALSE, alert |-> FALSE,
                   route |-> "none", within |-> FALSE, moved |-> 0,
                   deliverable |-> FALSE, notified |-> vod_obs.notified]
    /\ UNCHANGED <<vod_active_sessions, vod_identifier_ip_cache,
                   vod_device_ip, am_last_cleanup, vod_ticks, otherThanVOD>>

\* _handle_event's decision for a Value with a position: TRUE when the
\* alert is to be processed.
should_process_alert(sessions, key, current_seconds) ==
    LET vod_is_new_session == key \notin DOMAIN sessions
        since == IF vod_is_new_session THEN VodAgeCap
                 ELSE sessions[key].last_notification
        bypass_cooldown ==
            IF ~vod_is_new_session /\ since >= vod_alert_cooldown THEN FALSE
            ELSE IF ~vod_is_new_session /\ vod_significant_threshold > 0
            THEN vod_abs(current_seconds
                         - parse_timestamp_to_seconds(sessions[key].timestamp))
                    >= vod_significant_threshold
            ELSE FALSE
    IN vod_is_new_session \/ since >= vod_alert_cooldown \/ bypass_cooldown

\* process_event -> _handle_event under the event lock.  meta: whether
\* get_metadata finds the file; sent: whether send_alert delivered.
VOD_HandleEvent(e, meta, sent) ==
    /\ vod_budget > 0
    /\ ~is_end_event(e)
    /\ vod_should_handle_event(e)
    /\ vod_budget' = vod_budget - 1
    /\ LET value == e.Value
           file_id == name_file_id(e.Name)
           ident == name_session_identifier(e.Name)
           key == session_key(e.Name)
           S == vod_after_switch(vod_active_sessions, file_id, ident)
           touch(ts) == [S EXCEPT ![key].timestamp = ts, ![key].last_update = 0]
           success == meta /\ sent
           ip == determined_ip(value, ident)
           in_cooldown == /\ key \in DOMAIN S
                          /\ S[key].last_notification < vod_alert_cooldown
           alerted == /\ value.at # NoAt
                      /\ ~in_cooldown
                      /\ should_process_alert(S, key, value.at)
                      /\ success
       IN IF file_id = None \/ ident = << >>
          THEN \* no file id or no identifier in the Name
               /\ UNCHANGED <<vod_active_sessions, vod_identifier_ip_cache>>
               /\ vod_obs' = [ended |-> NoKey, had |-> FALSE, alert |-> FALSE,
                              route |-> "handle", within |-> FALSE,
                              moved |-> 0, deliverable |-> FALSE,
                              notified |-> vod_obs.notified]
          ELSE /\ vod_obs' = [ended |-> NoKey, had |-> FALSE,
                              alert |-> alerted,
                              route |-> "handle",
                              within |-> in_cooldown /\ value.at # NoAt,
                              moved |-> IF in_cooldown /\ value.at # NoAt
                                           /\ key \in DOMAIN vod_obs.notified
                                        THEN vod_abs(value.at
                                                     - vod_obs.notified[key])
                                        ELSE 0,
                              deliverable |-> success,
                              notified |-> IF alerted
                                           THEN Put(vod_obs.notified, key,
                                                    value.at)
                                           ELSE vod_obs.notified]
               /\ IF value.kind = "Streaming" /\ value.at = NoAt
                  THEN \* the placeholder of a Streaming event
                       /\ vod_active_sessions' =
                            IF key \notin DOMAIN S
                            THEN Put(S, key,
                                     [NewVodSession(value, file_id, ident, Streaming)
                                        EXCEPT !.last_notification = VodAgeCap])
                            ELSE touch(Streaming)
                       /\ UNCHANGED vod_identifier_ip_cache
                  ELSE IF value.at = NoAt
                  THEN \* no position in the Value
                       /\ vod_active_sessions' = S
                       /\ UNCHANGED vod_identifier_ip_cache
                  ELSE IF key \in DOMAIN S
                          /\ S[key].last_notification < vod_alert_cooldown
                  THEN \* cooldown active: only the timestamp moves
                       /\ vod_active_sessions' = touch(Position(value.at))
                       /\ UNCHANGED vod_identifier_ip_cache
                  ELSE IF should_process_alert(S, key, value.at)
                  THEN IF success
                       THEN /\ vod_active_sessions' =
                                 Put(S, key, NewVodSession(value, file_id, ident,
                                                           Position(value.at)))
                            /\ vod_identifier_ip_cache' =
                                 IF ip # None
                                 THEN Put(vod_identifier_ip_cache, ident, ip)
                                 ELSE vod_identifier_ip_cache
                       ELSE /\ vod_active_sessions' =
                                 IF key \in DOMAIN S
                                 THEN [S EXCEPT ![key].last_update = 0] ELSE S
                            /\ UNCHANGED vod_identifier_ip_cache
                  ELSE /\ vod_active_sessions' =
                            IF key \in DOMAIN S
                            THEN touch(Position(value.at)) ELSE S
                       /\ UNCHANGED vod_identifier_ip_cache
    /\ UNCHANGED <<vod_device_ip, am_last_cleanup, vod_ticks, otherThanVOD>>

\* AlertManager._cleanup_loop finds its interval elapsed and _run_cleanup
\* calls VODWatchingAlert.cleanup.
VOD_Cleanup ==
    /\ am_last_cleanup >= am_cleanup_interval
    /\ LET kept == [k \in {x \in DOMAIN vod_active_sessions :
                             ~(vod_active_sessions[x].last_update > vod_stale_after)}
                      |-> vod_active_sessions[k]]
           active_identifiers == {kept[k].session_identifier : k \in DOMAIN kept}
       IN /\ vod_active_sessions' = kept
          /\ vod_identifier_ip_cache' =
                [i \in DOMAIN vod_identifier_ip_cache \cap active_identifiers
                   |-> vod_identifier_ip_cache[i]]
    /\ am_last_cleanup' = 0
    /\ UNCHANGED <<vod_device_ip, vod_budget, vod_ticks, vod_obs,
                   otherThanVOD>>

\* Time goes by between two events.
VOD_Tick ==
    /\ vod_ticks < MaxTicks
    /\ vod_ticks' = vod_ticks + 1
    /\ \E d \in VodTickSteps :
          /\ vod_active_sessions' =
                [k \in DOMAIN vod_active_sessions |->
                   [vod_active_sessions[k] EXCEPT
                      !.last_update = VodCap(@ + d),
                      !.last_notification = VodCap(@ + d)]]
          /\ am_last_cleanup' = VodCap(am_last_cleanup + d)
    /\ UNCHANGED <<vod_identifier_ip_cache, vod_device_ip, vod_budget,
                   vod_obs, otherThanVOD>>

NextVOD ==
    \/ \E e \in VodEvents : VOD_EndEvent(e)
    \/ \E e \in VodEvents : VOD_NotHandled(e)
    \/ \E e \in VodEvents, meta \in BOOLEAN, sent \in BOOLEAN :
          VOD_HandleEvent(e, meta, sent)
    \/ VOD_Cleanup
    \/ VOD_Tick

\* ========================================================= JobInfoProvider
\* helpers/job_info.py.  threading.Lock is not reentrant: an acquire by the
\* thread that holds the lock waits like any other.
JobThreads == {"sse", "cleanup"}
JobIds == {"j1", "j2"}
JobAgeCap == job_cache_ttl + 1
IdleJob == [pc |-> "idle", ret |-> "idle", job_id |-> None, result |-> None]

InitJob ==
    /\ jobs_cache = {}
    /\ jobs_cache_age = JobAgeCap
    /\ job_lock = None
    /\ jt = [t \in JobThreads |-> IdleJob]

\* current_time - self._jobs_cache_time > self._cache_ttl
cache_expired == jobs_cache_age > job_cache_ttl

\* A caller enters cache_jobs (_cache_channels at startup, the watchdog).
Job_CallCacheJobs(t) ==
    /\ jt[t].pc = "idle"
    /\ jt' = [jt EXCEPT ![t] = [IdleJob EXCEPT !.pc = "cj_lock"]]
    /\ UNCHANGED <<jobs_cache, jobs_cache_age, job_lock, otherThanJob>>

\* A caller enters get_all_jobs.
Job_CallGetAll(t) ==
    /\ jt[t].pc = "idle"
    /\ jt' = [jt EXCEPT ![t] = [IdleJob EXCEPT !.pc = "ga_lock"]]
    /\ UNCHANGED <<jobs_cache, jobs_cache_age, job_lock, otherThanJob>>

\* A caller enters get_job_by_id(job_id).
Job_CallGetById(t, job_id) ==
    /\ jt[t].pc = "idle"
    /\ jt' = [jt EXCEPT ![t] = [IdleJob EXCEPT !.pc = "gb_lock",
                                               !.job_id = job_id]]
    /\ UNCHANGED <<jobs_cache, jobs_cache_age, job_lock, otherThanJob>>

\* Where a reader goes once it holds the lock: into cache_jobs when the
\* cache has expired, else on to its own next step.
after_lock(next) == IF cache_expired THEN "cj_lock" ELSE next

\* get_all_jobs: "with self._lock", then the expiry test.
Job_GetAllLocked(t) ==
    /\ jt[t].pc = "ga_lock"
    /\ job_lock = None
    /\ job_lock' = t
    /\ jt' = [jt EXCEPT ![t].pc = after_lock("ga_ret"), ![t].ret = "ga_ret"]
    /\ UNCHANGED <<jobs_cache, jobs_cache_age, otherThanJob>>

\* get_all_jobs: return list(self._jobs_cache.values()), leaving the lock.
Job_GetAllReturn(t) ==
    /\ jt[t].pc = "ga_ret"
    /\ job_lock' = None
    /\ jt' = [jt EXCEPT ![t] = [IdleJob EXCEPT !.result = "list"]]
    /\ UNCHANGED <<jobs_cache, jobs_cache_age, otherThanJob>>

\* get_job_by_id: "with self._lock", then the expiry test.
Job_GetByIdLocked(t) ==
    /\ jt[t].pc = "gb_lock"
    /\ job_lock = None
    /\ job_lock' = t
    /\ jt' = [jt EXCEPT ![t].pc = after_lock("gb_lookup"),
                        ![t].ret = "gb_lookup"]
    /\ UNCHANGED <<jobs_cache, jobs_cache_age, otherThanJob>>

\* get_job_by_id: the cache lookup; a hit returns the job, a miss leaves
\* the lock and goes on to ask the DVR.
Job_GetByIdLookup(t) ==
    /\ jt[t].pc = "gb_lookup"
    /\ job_lock' = None
    /\ jt' = [jt EXCEPT ![t] = IF jt[t].job_id \in jobs_cache
                               THEN [IdleJob EXCEPT !.result = "job"]
                               ELSE [@ EXCEPT !.pc = "gb_http"]]
    /\ UNCHANGED <<jobs_cache, jobs_cache_age, otherThanJob>>

\* get_job_by_id: the direct request; ok is whether it succeeded and dvr
\* the jobs the DVR listed.
Job_GetByIdFetch(t, ok, dvr) ==
    /\ jt[t].pc = "gb_http"
    /\ jt' = [jt EXCEPT ![t] = IF ok /\ jt[t].job_id \in dvr
                               THEN [@ EXCEPT !.pc = "gb_store"]
                               ELSE [IdleJob EXCEPT !.result = "not_found"]]
    /\ UNCHANGED <<jobs_cache, jobs_cache_age, job_lock, otherThanJob>>

\* get_job_by_id: "with self._lock: self._jobs_cache[job_id] = found_job".
Job_GetByIdStore(t) ==
    /\ jt[t].pc = "gb_store"
    /\ job_lock = None
    /\ jobs_cache' = jobs_cache \cup {jt[t].job_id}
    /\ jt' = [jt EXCEPT ![t] = [IdleJob EXCEPT !.result = "job"]]
    /\ UNCHANGED <<jobs_cache_age, job_lock, otherThanJob>>

\* cache_jobs: "with self._lock".
Job_CacheJobsLocked(t) ==
    /\ jt[t].pc = "cj_lock"
    /\ job_lock = None
    /\ job_lock' = t
    /\ jt' = [jt EXCEPT ![t].pc = "cj_http"]
    /\ UNCHANGED <<jobs_cache, jobs_cache_age, otherThanJob>>

\* cache_jobs: the request under the lock; success replaces the cache and
\* stamps it, failure is caught; either way the with-block leaves the lock
\* and the caller goes on.
Job_CacheJobsFetch(t, ok, dvr) ==
    /\ jt[t].pc = "cj_http"
    /\ jobs_cache' = IF ok THEN dvr ELSE jobs_cache
    /\ jobs_cache_age' = IF ok THEN 0 ELSE jobs_cache_age
    /\ job_lock' = None
    /\ jt' = [jt EXCEPT ![t] = IF jt[t].ret = "idle"
                               THEN [IdleJob EXCEPT !.result = "count"]
                               ELSE [@ EXCEPT !.pc = jt[t].ret]]
    /\ UNCHANGED <<otherThanJob>>

\* More than the cache TTL goes by.
Job_Tick ==
    /\ jobs_cache_age' = JobAgeCap
    /\ UNCHANGED <<jobs_cache, job_lock, jt, otherThanJob>>

NextJob ==
    \/ \E t \in JobThreads : Job_CallCacheJobs(t)
    \/ \E t \in JobThreads : Job_CallGetAll(t)
    \/ \E t \in JobThreads, job_id \in JobIds : Job_CallGetById(t, job_id)
    \/ \E t \in JobThreads : Job_GetAllLocked(t)
    \/ \E t \in JobThreads : Job_GetAllReturn(t)
    \/ \E t \in JobThreads : Job_GetByIdLocked(t)
    \/ \E t \in JobThreads : Job_GetByIdLookup(t)
    \/ \E t \in JobThreads, ok \in BOOLEAN, dvr \in SUBSET JobIds :
          Job_GetByIdFetch(t, ok, dvr)
    \/ \E t \in JobThreads : Job_GetByIdStore(t)
    \/ \E t \in JobThreads : Job_CacheJobsLocked(t)
    \/ \E t \in JobThreads, ok \in BOOLEAN, dvr \in SUBSET JobIds :
          Job_CacheJobsFetch(t, ok, dvr)
    \/ Job_Tick

\* ============================================================ AlertManager
\* engine/alert_manager.py and engine/event_monitor.py: the dispatch of one
\* parsed event to the registered detectors.
\* helpers/initialize.py registers the enabled detectors in this order.
alert_mapping == <<"Channel-Watching", "Disk-Space", "VOD-Watching",
                   "Recording-Events">>
EventTypes == {"hello", "activities.set", "jobs.created"}
NoType == "none"

RECURSIVE enabled_alerts(_, _)
enabled_alerts(order, enabled) ==
    IF order = << >> THEN << >>
    ELSE IF Head(order) \in enabled
         THEN <<Head(order)>> \o enabled_alerts(Tail(order), enabled)
         ELSE enabled_alerts(Tail(order), enabled)

IdleDispatch == [pc |-> "idle", type |-> NoType, i |-> 1, called |-> << >>,
                 result |-> None]

InitAM ==
    /\ alert_instances \in
          {enabled_alerts(alert_mapping, en) :
             en \in SUBSET {alert_mapping[k] : k \in 1..Len(alert_mapping)}}
    /\ dispatch = IdleDispatch
RestAM ==
    /\ alert_instances = << >>
    /\ dispatch = IdleDispatch

\* EventMonitor._process_event and the entry of AlertManager.process_event:
\* a hello is dropped, any other event starts the loop over the detectors.
AM_ProcessEvent(type) ==
    /\ dispatch.pc = "idle"
    /\ dispatch' = IF type = "hello" \/ alert_instances = << >>
                   THEN [IdleDispatch EXCEPT !.type = type]
                   ELSE [IdleDispatch EXCEPT !.type = type, !.pc = "loop"]
    /\ UNCHANGED <<alert_instances, otherThanAM>>

\* Where the loop goes after the detector at position i returned: out with
\* the alert type on a true result, else on to the next detector.
loop_after(outcome, i) ==
    IF outcome = "true" THEN "idle"
    ELSE IF i = Len(alert_instances) THEN "idle" ELSE "loop"

\* One turn of the loop: alert_instance.process_event returns true or
\* false, or raises (caught and logged inside the loop).
AM_Call(outcome) ==
    /\ dispatch.pc = "loop"
    /\ dispatch' = [dispatch EXCEPT
                      !.called = Append(@, alert_instances[dispatch.i]),
                      !.result = IF outcome = "true"
                                 THEN alert_instances[dispatch.i] ELSE None,
                      !.i = @ + 1,
                      !.pc = loop_after(outcome, dispatch.i)]
    /\ UNCHANGED <<alert_instances, otherThanAM>>

NextAM ==
    \/ \E type \in EventTypes : AM_ProcessEvent(type)
    \/ \E outcome \in {"true", "false", "raise"} : AM_Call(outcome)

\* ===================================================== RecordingEventsAlert
\* The detector's handlers, run by the read loop under event_lock, and its
\* retry worker.  A job or file is reduced to its id; the job returned by
\* the pre-fetch is reduced to what the handlers read of it: absent, starting
\* more than schedule_margin seconds from now, or starting sooner.
\* pending_recordings keeps first_seen and last_check as ages; check_count
\* is only ever logged and is left out.  A fetched job is reduced to
\* start_time - current_time, in seconds.
NoJob == -1
Soon == schedule_margin
Future == schedule_margin + 1
\* is_scheduled = (start_time - current_time) > 30
is_scheduled(start_in) == start_in > schedule_margin
RecJobs == {"j1"}
RecFiles == {"r1"}
\* recording.get("job_id")
FileJob(f) == "j1"
RecAgeCap == max_wait_time + 1
RecSleeps == {retry_interval, RecAgeCap}
RecCap(a) == IF a > RecAgeCap THEN RecAgeCap ELSE a

\* an event with what the pre-fetch of _handle_event returned for it: the
\* job for the jobs.* and recording- events, the recording (filled in by
\* Rec_HandleBegin) for a recorded- event
RecEvents ==
    [type : {"jobs.created"}, prefix : {""}, id : RecJobs,
     job : {Future, Soon, NoJob}, recording : {"none"}]
    \cup [type : {"jobs.deleted"}, prefix : {""}, id : RecJobs,
          job : {NoJob}, recording : {"none"}]
    \cup [type : {"programs.set"}, prefix : {"recording-"}, id : RecJobs,
          job : {Soon}, recording : {"none"}]
    \cup [type : {"programs.set"}, prefix : {"recorded-"}, id : RecFiles,
          job : {NoJob}, recording : {"none"}]
NoRecEvent == [type |-> "none", prefix |-> "", id |-> "", job |-> NoJob,
               recording |-> "none"]
RecIdle == [pc |-> "idle", e |-> NoRecEvent, stalled |-> FALSE]
\* the retry worker: the items of its snapshot still to check, and what
\* get_recording_by_id returned for the head item
RwSleep == [pc |-> "sleep", items |-> << >>, recording |-> "none"]

\* f"recording-{kind}-{id}"
notification_key(kind, id) == [kind |-> kind, id |-> id]
RecAlert(status, id) == [status |-> status, id |-> id]

\* a recording as get_recording_by_id returns it: missing, or with its
\* processed, cancelled, completed and delayed fields
RecStates == {"missing", "unprocessed", "processed"}
Recording(state, cancelled, completed, delayed) ==
    [state |-> state, cancelled |-> cancelled, completed |-> completed,
     delayed |-> delayed]
PlainRecordings == {Recording(s, FALSE, TRUE, FALSE) : s \in RecStates}
AnyRecordings ==
    [state : RecStates, cancelled : BOOLEAN, completed : BOOLEAN,
     delayed : BOOLEAN]
AllEnabled == [scheduled |-> TRUE, started |-> TRUE, completed |-> TRUE,
               cancelled |-> TRUE, stream_count |-> TRUE]

\* settings.rd_alert_* and settings.stream_count: at most one alert toggle
\* is switched off; stream_count, which the handlers read only when
\* rd_alert_completed is off, is switched off only together with it
RecSettings ==
    {s \in [scheduled : BOOLEAN, started : BOOLEAN, completed : BOOLEAN,
            cancelled : BOOLEAN, stream_count : BOOLEAN] :
        /\ Cardinality({k \in {"scheduled", "started", "completed",
                                "cancelled"} : ~s[k]}) <= 1
        /\ ~s.stream_count => ~s.completed}

NoEmission == [on |-> FALSE, last |-> << >>, pair |-> FALSE,
               gap |-> RecAgeCap, by |-> "none"]

InitRec ==
    /\ rec_obs = NoEmission
    /\ scheduled_recordings = {}
    /\ active_recordings = {}
    /\ pending_recordings = << >>
    /\ rec_history = << >>
    /\ rec_settings \in RecSettings
    /\ rec_evt = RecIdle
    /\ rw = RwSleep
    /\ recordings \in [RecFiles -> PlainRecordings]
    /\ rec_ticks = 0
    /\ rec_alerts = << >>
    /\ rec_trace = << >>

RestRec ==
    /\ InitRec
    /\ rec_settings = AllEnabled
    /\ \A f \in RecFiles : recordings[f].state = "processed"

\* event_lock is held from the acquire in _handle_event to its finally.
\* The worker's acquire has a timeout of one second: one handler makes it
\* time out at most once, after that the worker waits for the release.
event_lock_held == rec_evt.pc = "locked"
lock_wait_over == ~event_lock_held \/ ~rec_evt.stalled
stall == IF event_lock_held THEN [rec_evt EXCEPT !.stalled = TRUE]
         ELSE rec_evt

\* _handle_event up to the lock: the pre-fetch, and the early return when the
\* job of a jobs.created or recording- event could not be fetched
Rec_HandleBegin(e) ==
    /\ rec_evt.pc = "idle"
    /\ Len(rec_trace) < MaxRecEvents
    /\ LET error_occurred == e.prefix # "recorded-" /\ e.job = NoJob
                             /\ e.type # "jobs.deleted"
           fetched == IF e.prefix = "recorded-"
                      THEN [e EXCEPT !.recording = recordings[e.id].state]
                      ELSE e
       IN /\ rec_trace' = Append(rec_trace, fetched)
          /\ rec_evt' = IF error_occurred THEN RecIdle
                        ELSE [pc |-> "locked", e |-> fetched,
                              stalled |-> FALSE]
    /\ UNCHANGED <<scheduled_recordings, active_recordings,
                   pending_recordings, rec_history, rec_settings, rw,
                   recordings, rec_ticks, rec_alerts, rec_obs,
                   otherThanRec>>

\* the part of a handler after should_send_notification
rec_notify_always(key, status, id, recorded) ==
    /\ rec_alerts' = Append(rec_alerts, RecAlert(status, id))
    /\ rec_history' = Put(rec_history, key, 0)
rec_notify(key, status, id, recorded) ==
    IF ~should_send_notification(rec_history, key, rec_alert_cooldown)
    THEN UNCHANGED <<rec_history, rec_alerts>>
    ELSE /\ rec_alerts' = Append(rec_alerts, RecAlert(status, id))
         /\ rec_history' = IF recorded THEN Put(rec_history, key, 0)
                           ELSE rec_history

handle_recording_created(e) ==
    IF ~rec_settings.scheduled \/ e.job = NoJob \/ ~is_scheduled(e.job)
    THEN UNCHANGED <<scheduled_recordings, active_recordings,
                     pending_recordings, rec_history, rec_alerts>>
    ELSE /\ active_recordings' = active_recordings \cup {e.id}
         /\ scheduled_recordings' = scheduled_recordings \cup {e.id}
         /\ rec_notify(notification_key("scheduled", e.id), "Scheduled",
                       e.id, TRUE)
         /\ UNCHANGED pending_recordings

handle_recording_started(e, alert_sent) ==
    IF ~rec_settings.started \/ e.job = NoJob
    THEN UNCHANGED <<scheduled_recordings, active_recordings,
                     pending_recordings, rec_history, rec_alerts>>
    ELSE LET was_scheduled == e.id \in scheduled_recordings
         IN /\ scheduled_recordings' = scheduled_recordings \ {e.id}
            /\ active_recordings' = active_recordings \cup {e.id}
            /\ rec_notify(notification_key("started", e.id),
                          IF was_scheduled THEN "Recording (Scheduled)"
                          ELSE "Recording (Manual)",
                          e.id, alert_sent)
            /\ UNCHANGED pending_recordings

\* the status line of _process_completed_recording
completion_status(is_cancelled, is_completed, is_delayed) ==
    LET manually_stopped == is_cancelled /\ is_completed
        is_interrupted == is_cancelled /\ ~is_completed
    IN IF manually_stopped THEN "Stopped"
       ELSE IF is_cancelled THEN "Cancelled"
       ELSE IF is_delayed THEN "Completed (Delayed)"
       ELSE IF is_interrupted THEN "Completed (Interrupted)"
       ELSE "Completed"

completion_key(is_cancelled, is_completed) ==
    IF is_cancelled /\ is_completed THEN "stopped"
    ELSE IF is_cancelled THEN "cancelled"
    ELSE "completed"

process_completed_recording_silent(f) ==
    /\ active_recordings' = active_recordings \ {FileJob(f)}
    /\ UNCHANGED <<rec_history, rec_alerts>>
process_completed_recording(f) ==
    /\ LET flags == recordings[f] IN rec_notify(notification_key(
                      completion_key(flags.cancelled, flags.completed), f),
                  completion_status(flags.cancelled, flags.completed,
                                    flags.delayed),
                  f, TRUE)
    /\ active_recordings' = active_recordings \ {FileJob(f)}

handle_recording_completed(e) ==
    LET file_id == e.id
        recording == recordings[file_id].state
        process_stream_only == ~rec_settings.completed
    IN IF file_id \in DOMAIN pending_recordings
       THEN UNCHANGED <<scheduled_recordings, active_recordings,
                        pending_recordings, rec_history, rec_alerts>>
       ELSE IF recording # "missing" /\ rec_settings.stream_count
               /\ process_stream_only
       THEN UNCHANGED <<scheduled_recordings, active_recordings,
                        pending_recordings, rec_history, rec_alerts>>
       ELSE IF recording # "processed"
       THEN /\ pending_recordings' =
                   Put(pending_recordings, file_id,
                       [first_seen |-> 0, last_check |-> 0])
            /\ UNCHANGED <<scheduled_recordings, active_recordings,
                           rec_history, rec_alerts>>
       ELSE /\ process_completed_recording(file_id)
            /\ UNCHANGED <<scheduled_recordings, pending_recordings>>

\* Past the three branches that return, "job" is unbound or None and the
\* handler ends without an alert (line 988, or the NameError caught by
\* _handle_event).
handle_recording_deleted_keep(e) ==
    UNCHANGED <<scheduled_recordings, active_recordings,
                pending_recordings, rec_history, rec_alerts>>
handle_recording_deleted(e) ==
    IF ~rec_settings.cancelled
    THEN UNCHANGED <<scheduled_recordings, active_recordings,
                     pending_recordings, rec_history, rec_alerts>>
    ELSE IF e.id \in scheduled_recordings
    THEN /\ scheduled_recordings' = scheduled_recordings \ {e.id}
         /\ rec_notify(notification_key("cancelled", e.id), "Cancelled",
                       e.id, TRUE)
         /\ UNCHANGED <<active_recordings, pending_recordings>>
    ELSE /\ active_recordings' = active_recordings \ {e.id}
         /\ UNCHANGED <<scheduled_recordings, pending_recordings,
                        rec_history, rec_alerts>>

\* _handle_event under the lock: the specialised handler, then the release
\* the notification key a handler uses for its event
file_key(f) ==
    notification_key(completion_key(recordings[f].cancelled,
                                    recordings[f].completed), f)
event_key(e) ==
    CASE e.type = "jobs.created" -> notification_key("scheduled", e.id)
      [] e.type = "jobs.deleted" -> notification_key("cancelled", e.id)
      [] e.prefix = "recording-" -> notification_key("started", e.id)
      [] OTHER -> file_key(e.id)

\* observation: when the step handed an alert to send_alert and it went
\* out, note how long ago the previous alert of its key went out
observe_alert(key, by, went_out) ==
    IF ~rec_obs.on \/ Len(rec_alerts') = Len(rec_alerts) \/ ~went_out
    THEN rec_obs
    ELSE [on |-> TRUE,
          last |-> Put(rec_obs.last, key, 0),
          pair |-> key \in DOMAIN rec_obs.last,
          gap |-> IF key \in DOMAIN rec_obs.last THEN rec_obs.last[key]
                  ELSE RecAgeCap,
          by |-> by]

Rec_HandleEnd(alert_sent) ==
    /\ rec_evt.pc = "locked"
    /\ LET e == rec_evt.e
       IN CASE e.type = "jobs.created" -> handle_recording_created(e)
            [] e.type = "jobs.deleted" -> handle_recording_deleted(e)
            [] e.prefix = "recording-" ->
                   handle_recording_started(e, alert_sent)
            [] OTHER -> handle_recording_completed(e)
    /\ rec_obs' = observe_alert(event_key(rec_evt.e), "handler",
                                rec_evt.e.prefix = "recording-" => alert_sent)
    /\ rec_evt' = RecIdle
    /\ UNCHANGED <<rec_settings, rw, recordings, rec_ticks, rec_trace,
                   otherThanRec>>

\* list(self.pending_recordings.keys()), restricted to the entries due
RECURSIVE key_list(_)
key_list(S) ==
    IF S = {} THEN << >>
    ELSE LET x == CHOOSE y \in S : TRUE
         IN <<x>> \o key_list(S \ {x})

\* a cycle of _retry_loop that sleeps retry_interval has something to do
work_pending ==
    \E f \in DOMAIN pending_recordings :
        \/ recordings[f].state = "processed"
        \/ /\ recordings[f].state = "unprocessed"
           /\ pending_recordings[f].first_seen + retry_interval > max_wait_time

\* _retry_loop: sleep, then the first phase of _check_pending_recordings,
\* the snapshot under event_lock.  A sleep longer than retry_interval stands
\* for a run of cycles in which nothing was due: every lookup found the
\* recording missing or unprocessed and not yet timed out.
Rec_RetrySnapshot(d) ==
    /\ rw.pc = "sleep"
    /\ lock_wait_over
    /\ rec_evt' = stall
    /\ IF d = retry_interval THEN work_pending
       ELSE /\ ~work_pending
            /\ rec_evt.pc = "idle"
            /\ rec_ticks < MaxTicks
    /\ rec_ticks' = IF d = retry_interval THEN rec_ticks ELSE rec_ticks + 1
    /\ LET aged == [f \in DOMAIN pending_recordings |->
                      [first_seen |->
                           RecCap(pending_recordings[f].first_seen + d),
                       last_check |->
                           RecCap(pending_recordings[f].last_check + d)]]
           due == {f \in DOMAIN aged : aged[f].last_check >= retry_interval}
       IN /\ rec_history' =
                 [k \in DOMAIN rec_history |-> RecCap(rec_history[k] + d)]
          /\ rec_obs' = IF ~rec_obs.on THEN rec_obs
                         ELSE [rec_obs EXCEPT !.last =
                                  [k \in DOMAIN rec_obs.last |->
                                      RecCap(rec_obs.last[k] + d)]]
          /\ IF event_lock_held
             THEN /\ pending_recordings' = aged
                  /\ rw' = RwSleep
             ELSE /\ pending_recordings' =
                         [f \in DOMAIN aged |->
                             IF f \in due
                             THEN [aged[f] EXCEPT !.last_check = 0]
                             ELSE aged[f]]
                  /\ rw' = IF due = {} THEN RwSleep
                           ELSE [pc |-> "check", items |-> key_list(due),
                                 recording |-> "none"]
    /\ UNCHANGED <<scheduled_recordings, active_recordings, rec_settings,
                   recordings, rec_alerts, rec_trace, otherThanRec>>

rw_next(items) ==
    IF Len(items) = 1 THEN RwSleep
    ELSE [pc |-> "check", items |-> Tail(items), recording |-> "none"]

\* the second phase, outside the lock: look the head item up and process it
\* when it is processed.  pending_info is the snapshot's reference to the
\* queue entry; "continue" at line 344 skips the deletion.
Rec_RetryCheck ==
    /\ rw.pc = "check"
    /\ LET file_id == Head(rw.items)
           recording == recordings[file_id].state
           timed_out == pending_recordings[file_id].first_seen > max_wait_time
       IN IF recording = "missing"
          THEN /\ rw' = rw_next(rw.items)
               /\ UNCHANGED <<active_recordings, rec_history, rec_alerts>>
          ELSE IF recording = "processed"
          THEN /\ process_completed_recording(file_id)
               /\ rw' = [rw EXCEPT !.pc = "delete", !.recording = recording]
          ELSE /\ rw' = IF timed_out
                        THEN [rw EXCEPT !.pc = "delete",
                                        !.recording = recording]
                        ELSE rw_next(rw.items)
               /\ UNCHANGED <<active_recordings, rec_history, rec_alerts>>
    /\ rec_obs' = observe_alert(file_key(Head(rw.items)), "worker", TRUE)
    /\ UNCHANGED <<scheduled_recordings, pending_recordings, rec_settings,
                   rec_evt, recordings, rec_ticks, rec_trace, otherThanRec>>

\* the deletion under event_lock; a timed-out acquire returns from the cycle
Rec_RetryDelete ==
    /\ rw.pc = "delete"
    /\ lock_wait_over
    /\ rec_evt' = stall
    /\ IF event_lock_held
       THEN /\ rw' = RwSleep
            /\ UNCHANGED pending_recordings
       ELSE /\ pending_recordings' =
                   Drop(pending_recordings, {Head(rw.items)})
            /\ rw' = rw_next(rw.items)
    /\ UNCHANGED <<scheduled_recordings, active_recordings, rec_history,
                   rec_settings, recordings, rec_ticks, rec_alerts,
                   rec_trace, rec_obs, otherThanRec>>

\* the DVR finishes processing a recording file
Rec_Processed(f) ==
    /\ recordings[f].state = "unprocessed"
    /\ recordings' = [recordings EXCEPT ![f].state = "processed"]
    /\ UNCHANGED <<scheduled_recordings, active_recordings,
                   pending_recordings, rec_history, rec_settings, rec_evt,
                   rw, rec_ticks, rec_alerts, rec_trace, rec_obs,
                   otherThanRec>>

NextRec ==
    \/ \E e \in RecEvents : Rec_HandleBegin(e)
    \/ \E alert_sent \in BOOLEAN : Rec_HandleEnd(alert_sent)
    \/ \E d \in RecSleeps : Rec_RetrySnapshot(d)
    \/ Rec_RetryCheck
    \/ Rec_RetryDelete
    \/ \E f \in RecFiles : Rec_Processed(f)

\* =========================================================== DiskSpaceAlert
\* The poller of _monitoring_loop.  Sizes are in GiB, so that
\* "free_bytes < gb_threshold * 1024^3" is "free < gb_threshold", and the
\* percentage test "(free / total) * 100 < percent_threshold" is made on
\* integers as "free * 100 < percent_threshold * total".  ds_last_alert_age
\* is time.time() - last_alert_time; last_alert_time starts at 0, an age
\* past every comparison.
DsAgeCap == cooldown_period + 1
DsCap(a) == IF a > DsAgeCap THEN DsAgeCap ELSE a
NoDisk == [free |-> -1, total |-> -1]
\* what _get_disk_info returns: None, or the free and total sizes
DiskInfos ==
    {NoDisk} \cup {d \in [free : {40, 60, 200}, total : {0, 100, 1000}] :
                      d.total = 0 \/ d.free <= d.total}

is_percent_low(free, total) == free * 100 < percent_threshold * total
is_gb_low(free) == free < gb_threshold
is_low_always(free, total) == TRUE
is_low(free, total) == is_percent_low(free, total) \/ is_gb_low(free)

NoDsObs == [info |-> NoDisk, checked |-> FALSE, alerted |-> FALSE,
            since |-> DsAgeCap, was_sent |-> FALSE]

\* The threads of the detector.  A polling loop is "unborn", "asleep" (in
\* one of the sleeps of _monitoring_loop) or "ended"; monitoring_thread is
\* the loop the attribute names, 0 for None.  ok_age counts the sleeps of
\* the health checker since last_successful_check was set, -1 while it is
\* still 0.
MaxLoops == 3
Loops == 1..MaxLoops
stale_checks == 3
unusable_info(disk_info) == disk_info = NoDisk \/ disk_info.total = 0
alive_loops(d) == {i \in Loops : d.loops[i] = "asleep"}
unborn_loops(d) == {i \in Loops : d.loops[i] = "unborn"}
NoMonitor == [running |-> FALSE, monitoring_thread |-> 0,
              loops |-> [i \in Loops |-> "unborn"], recovering |-> 0,
              hc |-> "sleep", ok_age |-> -1]

\* start_monitoring: a new loop only when the flag is down
start_monitoring(d) ==
    IF ~d.running
    THEN LET i == CHOOSE j \in unborn_loops(d) : \A k \in unborn_loops(d) : j <= k
         IN [d EXCEPT !.running = TRUE, !.monitoring_thread = i,
                      !.loops[i] = "asleep"]
    ELSE d

\* stop_monitoring: the flag goes down and the attribute is cleared after a
\* join of at most one second; the loop itself ends when it next wakes
stop_monitoring(d) == [d EXCEPT !.running = FALSE, !.monitoring_thread = 0]

InitDisk ==
    /\ ds_alert_sent = FALSE
    /\ ds_last_alert_age = DsAgeCap
    /\ ds_obs = NoDsObs
    /\ dm = start_monitoring(NoMonitor)

\* _check_disk_space, check_interval after the turn before
check_disk_space(disk_info) ==
    LET age == DsCap(ds_last_alert_age + check_interval)
        unusable == disk_info = NoDisk \/ disk_info.total = 0
        low == ~unusable /\ is_low(disk_info.free, disk_info.total)
        in_cooldown == ds_alert_sent /\ age < cooldown_period
        alert == low /\ ~in_cooldown
    IN /\ ds_alert_sent' = IF alert THEN TRUE
                           ELSE IF unusable \/ low THEN ds_alert_sent
                           ELSE FALSE
       /\ ds_last_alert_age' = IF alert THEN 0 ELSE age
       /\ ds_obs' = [info |-> disk_info, checked |-> ~unusable,
                     alerted |-> alert, since |-> age,
                     was_sent |-> ds_alert_sent]

\* one turn of _monitoring_loop of the only loop: the sleep of
\* check_interval, then _check_disk_space
DS_Poll(disk_info) ==
    /\ check_disk_space(disk_info)
    /\ UNCHANGED dm
    /\ UNCHANGED otherThanDisk

NextDisk == \E disk_info \in DiskInfos : DS_Poll(disk_info)

\* a polling loop wakes from its sleep: with the flag up it checks the disk
\* (last_successful_check is set when the sizes are usable) and sleeps
\* again, with the flag down it leaves the while and starts a recovery
\* thread
Mon_Wake(i, disk_info) ==
    /\ dm.loops[i] = "asleep"
    /\ IF dm.running
       THEN /\ check_disk_space(disk_info)
            /\ dm' = [dm EXCEPT !.ok_age = IF unusable_info(disk_info)
                                           THEN @ ELSE 0]
       ELSE /\ dm' = [dm EXCEPT !.loops[i] = "ended",
                                !.recovering = @ + 1]
            /\ UNCHANGED <<ds_alert_sent, ds_last_alert_age, ds_obs>>
    /\ UNCHANGED otherThanDisk

\* _attempt_monitoring_recovery, sixty seconds after its loop ended
Mon_Recover ==
    /\ dm.recovering > 0
    /\ dm.running \/ unborn_loops(dm) # {}
    /\ dm' = [start_monitoring(dm) EXCEPT !.recovering = @ - 1]
    /\ UNCHANGED <<ds_alert_sent, ds_last_alert_age, ds_obs>>
    /\ UNCHANGED otherThanDisk

\* one turn of _health_checker_loop up to stop_monitoring: the sleep of
\* health_check_interval (a loop that has to end has ended long before),
\* then the four tests
HC_Pass ==
    LET ok_age == IF dm.ok_age < 0 THEN dm.ok_age
                  ELSE IF dm.ok_age > stale_checks THEN dm.ok_age
                  ELSE dm.ok_age + 1
        restarts == \/ ~dm.running
                    \/ dm.monitoring_thread = 0
                    \/ dm.loops[dm.monitoring_thread] # "asleep"
                    \/ ok_age > stale_checks
    IN /\ dm.hc = "sleep"
       /\ dm.running \/ alive_loops(dm) = {}
       /\ dm' = IF restarts
                THEN [stop_monitoring(dm) EXCEPT !.ok_age = ok_age,
                                                 !.hc = "restart"]
                ELSE [dm EXCEPT !.ok_age = ok_age]
       /\ UNCHANGED <<ds_alert_sent, ds_last_alert_age, ds_obs>>
       /\ UNCHANGED otherThanDisk

\* the health checker five seconds later: start_monitoring
HC_Restart ==
    /\ dm.hc = "restart"
    /\ dm.running \/ unborn_loops(dm) # {}
    /\ dm' = [start_monitoring(dm) EXCEPT !.hc = "sleep"]
    /\ UNCHANGED <<ds_alert_sent, ds_last_alert_age, ds_obs>>
    /\ UNCHANGED otherThanDisk

NextDiskThreads ==
    \/ \E i \in Loops, disk_info \in DiskInfos : Mon_Wake(i, disk_info)
    \/ Mon_Recover
    \/ HC_Pass
    \/ HC_Restart

\* ====================================================== NotificationManager
\* providers is the registry in registration order (a dict, iterated in
\* insertion order); send is the position of send_notification in its
\* loop, the providers it has called and what they answered.
ProviderTypes == <<"Pushover", "Apprise">>
Titles == {"Channel Watching", "Recording Event", "Low Disk Space Warning"}
ProviderOutcomes == {"success", "failure", "raise"}

RECURSIVE registered(_, _)
registered(types, chosen) ==
    IF types = << >> THEN << >>
    ELSE IF Head(types) \in chosen
    THEN <<Head(types)>> \o registered(Tail(types), chosen)
    ELSE registered(Tail(types), chosen)

IdleSend == [pc |-> "idle", title |-> "", i |-> 1, called |-> << >>,
             answers |-> << >>, overall_success |-> FALSE]

InitNM ==
    /\ \E chosen \in SUBSET {"Pushover", "Apprise"} :
           providers = registered(ProviderTypes, chosen)
    /\ configured \in SUBSET {"Pushover", "Apprise"}
    /\ \A p \in configured : \E i \in 1..Len(providers) : providers[i] = p
    /\ send = IdleSend

RestNM ==
    /\ providers = ProviderTypes
    /\ configured = {"Pushover", "Apprise"}
    /\ send = IdleSend

\* send_notification up to the loop: "if not self.providers: return False"
NM_SendNotification(title) ==
    /\ send.pc \in {"idle", "done"}
    /\ send' = IF providers = << >>
               THEN [IdleSend EXCEPT !.pc = "done", !.title = title]
               ELSE [IdleSend EXCEPT !.pc = "loop", !.title = title]
    /\ UNCHANGED <<providers, configured, otherThanNM>>

\* where the loop stands after provider i
send_after_first(i) == "done"
send_after(i) == IF i = Len(providers) THEN "done" ELSE "loop"

\* one turn of the loop: a provider that is not configured is passed over; a
\* configured one is called, and an exception it raises is caught and logged
NM_Provider(outcome) ==
    /\ send.pc = "loop"
    /\ LET provider == providers[send.i]
       IN IF provider \notin configured
          THEN /\ outcome = "failure"
               /\ send' = [send EXCEPT !.i = @ + 1, !.pc = send_after(send.i)]
          ELSE send' = [send EXCEPT
                           !.i = @ + 1,
                           !.pc = send_after(send.i),
                           !.called = Append(@, provider),
                           !.answers = Append(@, outcome),
                           !.overall_success = @ \/ outcome = "success"]
    /\ UNCHANGED <<providers, configured, otherThanNM>>

NextNM ==
    \/ \E title \in Titles : NM_SendNotification(title)
    \/ \E outcome \in ProviderOutcomes : NM_Provider(outcome)

\* ============================================================ EventMonitor
\* engine/event_monitor.py.  A received line is the text the DVR sent, as
\* its tokens: an optional "data:" frame and a payload.  The payloads are a
\* JSON object with a Type the detectors know ("event"), the DVR's
\* {"Type": "hello"}, a JSON document that is not an object ("scalar") and
\* a text that is not JSON ("garbage").
JsonDocuments == {"event", "hello", "scalar"}
Payloads == JsonDocuments \cup {"garbage"}
EmptyLine == << >>
Lines ==
    { <<p>> : p \in Payloads } \cup { <<"data:", p>> : p \in Payloads }
    \cup {EmptyLine, <<"data:">>}
JSONDecodeError == "JSONDecodeError"

\* json.loads: one JSON document and nothing else
json_loads(text) ==
    IF Len(text) = 1 /\ text[1] \in JsonDocuments THEN text[1]
    ELSE JSONDecodeError
\* line.startswith('data:') and line[5:].strip()
startswith_data(text) == Len(text) >= 1 /\ text[1] = "data:"
after_data(text) == Tail(text)

\* what alert_manager.process_event answers: a detector alerted, none did,
\* or the call raised
DispatchResults == {"alert", "filtered", "raise"}

InitEM ==
    /\ em = [pc |-> "loop", running |-> TRUE, connected |-> FALSE,
             reconnect_delay |-> initial_reconnect_delay]
    /\ em_stats = [total_events |-> 0, alert_events |-> 0,
                   filtered_events |-> 0, error_events |-> 0]
    /\ em_obs = [waits |-> << >>, attempts |-> 0, lines |-> 0,
                 line |-> EmptyLine,
                 errors |-> 0, dispatched |-> 0, continued |-> TRUE]

\* _process_event: count, drop "hello", hand the event to the AlertManager
process_event_stats(stats, data, result) ==
    LET counted == [stats EXCEPT !.total_events = @ + 1]
    IN IF data = "scalar"   \* event_data.get raises AttributeError
       THEN [counted EXCEPT !.error_events = @ + 1]
       ELSE IF data = "hello" THEN counted
       ELSE IF result = "alert"
       THEN [counted EXCEPT !.alert_events = @ + 1]
       ELSE IF result = "filtered"
       THEN [counted EXCEPT !.filtered_events = @ + 1]
       ELSE [counted EXCEPT !.error_events = @ + 1]
\* the event reaches alert_manager.process_event
is_dispatched(data) == data = "event"

\* _process_event_line: the text as JSON, else its tail after "data:"
parsed_line(line) ==
    IF json_loads(line) # JSONDecodeError THEN json_loads(line)
    ELSE IF startswith_data(line) THEN json_loads(after_data(line))
    ELSE JSONDecodeError

process_event_line(stats, line, result) ==
    IF parsed_line(line) # JSONDecodeError
    THEN process_event_stats([stats EXCEPT !.total_events = @ + 1],
                             parsed_line(line), result)
    ELSE stats   \* "except: pass", or no except clause that counts

\* the head of "while self.running" in _monitor_events_loop
EM_Loop ==
    /\ em.pc = "loop"
    /\ em' = [em EXCEPT !.pc = IF em.running THEN "connect" ELSE "stopped"]
    /\ UNCHANGED <<em_stats, em_obs, otherThanEM>>

\* _monitor_events up to iter_lines: session.get answers 200, answers
\* another status, or raises
EM_Connect(outcome) ==
    /\ em.pc = "connect"
    /\ em' = IF outcome = "200"
             THEN [em EXCEPT !.pc = "read", !.connected = TRUE]
             ELSE [em EXCEPT !.pc = "returned", !.connected = FALSE]
    /\ em_obs' = [em_obs EXCEPT !.attempts = @ + 1]
    /\ UNCHANGED <<em_stats, otherThanEM>>

\* one turn of "for line in response.iter_lines(...)"
EM_Line(line, result) ==
    /\ em.pc = "read"
    /\ em_obs.lines < MaxLines
    /\ IF ~em.running
       THEN /\ em' = [em EXCEPT !.pc = "returned", !.connected = FALSE]
            /\ UNCHANGED <<em_stats, em_obs>>
       ELSE IF line = EmptyLine
       THEN /\ em_obs' = [em_obs EXCEPT !.lines = @ + 1, !.line = line,
                                        !.errors = 0, !.dispatched = 0,
                                        !.continued = TRUE]
            /\ UNCHANGED <<em, em_stats>>
       ELSE /\ em_stats' = process_event_line(em_stats, line, result)
            /\ em_obs' = [em_obs EXCEPT
                             !.lines = @ + 1, !.line = line,
                             !.errors = em_stats'.error_events
                                        - em_stats.error_events,
                             !.dispatched =
                                 IF is_dispatched(parsed_line(line))
                                 THEN 1 ELSE 0,
                             !.continued = TRUE]
            /\ UNCHANGED em
    /\ UNCHANGED otherThanEM

\* the stream ends or iter_lines raises: the finally of _monitor_events
EM_Drop ==
    /\ em.pc = "read"
    /\ em' = [em EXCEPT !.pc = "returned", !.connected = FALSE]
    /\ UNCHANGED <<em_stats, em_obs, otherThanEM>>

\* min(reconnect_delay * 2, max_reconnect_delay)
next_delay_same(delay) == delay
next_delay_wrap(delay) ==
    IF delay * 2 <= max_reconnect_delay THEN delay * 2
    ELSE initial_reconnect_delay
next_delay(delay) ==
    IF delay * 2 < max_reconnect_delay THEN delay * 2
    ELSE max_reconnect_delay

\* back in _monitor_events_loop: "if not self.running: break", else
\* time.sleep(reconnect_delay) and the next delay
EM_Reconnect ==
    /\ em.pc = "returned"
    /\ IF ~em.running
       THEN /\ em' = [em EXCEPT !.pc = "stopped"]
            /\ UNCHANGED em_obs
       ELSE /\ Len(em_obs.waits) < MaxWaits
            /\ em_obs' = [em_obs EXCEPT
                             !.waits = Append(@, em.reconnect_delay)]
            /\ em' = [em EXCEPT !.pc = "loop",
                                !.reconnect_delay = next_delay(@)]
    /\ UNCHANGED <<em_stats, otherThanEM>>

\* start_monitoring's KeyboardInterrupt: self.running = False
EM_Stop ==
    /\ em.running
    /\ em' = [em EXCEPT !.running = FALSE]
    /\ UNCHANGED <<em_stats, em_obs, otherThanEM>>

NextEM ==
    \/ EM_Loop
    \/ \E outcome \in {"200", "503", "error"} : EM_Connect(outcome)
    \/ \E line \in Lines, result \in DispatchResults : EM_Line(line, result)
    \/ EM_Drop
    \/ EM_Reconnect
    \/ EM_Stop

\* ======================================================= the info caches
\* helpers/channel_info.py, program_info.py and vod_info.py.  "channel" is
\* the ChannelInfoProvider of the Recording-Events detector, which its
\* handlers (the SSE thread) and _process_completed_recording (the retry
\* worker) both read; "program" is the ProgramInfoProvider and "vod" the
\* VODInfoProvider, which only the SSE thread reads, inside the detector's
\* "with event_lock".  A cache is its keys, the age of its timestamp, the
\* thread inside "with self.cache_lock" and the requests to the DVR that
\* have been sent and not answered.
CacheNames == {"channel", "program", "vod"}
CacheReaders == {"sse", "retry"}
CacheKeys == {"k1"}
reads(t) == IF t = "sse" THEN CacheNames ELSE {"channel"}
cache_ttl(c) ==
    IF c = "channel" THEN channel_cache_ttl
    ELSE IF c = "program" THEN program_cache_ttl ELSE vod_cache_ttl
CacheAgeCap == vod_cache_ttl
CacheSteps == {1, CacheAgeCap}
CacheOutcomes == {"200", "500", "raise", "bad_xml"}

NoRead == [cache |-> "", result |-> "", age |-> 0, attempted |-> FALSE]
IdleReader == [pc |-> "idle", cache |-> "", key |-> ""]

\* after main()'s startup: cache_channels and cache_program_data have run
\* (and filled their cache or failed); _cache_vod_metadata fills the
\* detector's own vod_metadata, never the provider's metadata_cache, and
\* sets the provider's last_fetch when the DVR answered
InitCache ==
    /\ \E ch \in SUBSET CacheKeys, pr \in SUBSET CacheKeys,
          vod_age \in {0, CacheAgeCap} :
          cache = [c \in CacheNames |->
                     [entries |-> IF c = "channel" THEN ch
                                  ELSE IF c = "program" THEN pr ELSE {},
                      age |-> IF c = "vod" THEN vod_age
                              ELSE IF c = "channel" /\ ch = {} THEN CacheAgeCap
                              ELSE IF c = "program" /\ pr = {} THEN CacheAgeCap
                              ELSE 0,
                      lock |-> None,
                      inflight |-> 0]]
    /\ rd = [t \in CacheReaders |-> IdleReader]
    /\ cache_obs = NoRead
    /\ cache_budget = [reads |-> MaxReads, ticks |-> 0]

RestCache ==
    /\ cache = [c \in CacheNames |->
                  [entries |-> {}, age |-> CacheAgeCap, lock |-> None,
                   inflight |-> 0]]
    /\ rd = [t \in CacheReaders |-> IdleReader]
    /\ cache_obs = NoRead
    /\ cache_budget = [reads |-> MaxReads, ticks |-> 0]

\* "now - fetched_at < ttl"
is_fresh(c) == cache[c].age < cache_ttl(c)
\* the read returns: what came back, how old the cache's timestamp is, and
\* whether this read tried a refresh
Returned(c, key, entries, age, attempted) ==
    [cache |-> c, result |-> IF key \in entries THEN "hit" ELSE "miss",
     age |-> age, attempted |-> attempted]

\* get_channel_info up to cache_channels, get_current_program up to
\* cache_program_data, get_metadata through _update_cache's test
Cache_Get(t, c, key) ==
    /\ rd[t].pc = "idle"
    /\ c \in reads(t)
    /\ cache_budget.reads > 0
    /\ cache_budget' = [cache_budget EXCEPT !.reads = @ - 1]
    /\ IF c = "channel" /\ key \in cache[c].entries
       THEN \* "if channel_number_str in self.channel_cache: return ..."
            /\ cache_obs' = Returned(c, key, cache[c].entries,
                                     cache[c].age, FALSE)
            /\ UNCHANGED <<cache, rd>>
       ELSE IF c \in {"channel", "program"}
       THEN /\ rd' = [rd EXCEPT ![t] = [pc |-> "want_lock", cache |-> c,
                                        key |-> key]]
            /\ UNCHANGED <<cache, cache_obs>>
       ELSE IF ~is_fresh(c)
       THEN \* _update_cache sends its request
            /\ cache' = [cache EXCEPT ![c].inflight = @ + 1]
            /\ rd' = [rd EXCEPT ![t] = [pc |-> "vod_update", cache |-> c,
                                        key |-> key]]
            /\ UNCHANGED cache_obs
       ELSE IF key \in cache[c].entries
       THEN /\ cache_obs' = Returned(c, key, cache[c].entries,
                                     cache[c].age, FALSE)
            /\ UNCHANGED <<cache, rd>>
       ELSE \* a miss: get_metadata fetches the whole list again
            /\ cache' = [cache EXCEPT ![c].inflight = @ + 1]
            /\ rd' = [rd EXCEPT ![t] = [pc |-> "vod_fallback", cache |-> c,
                                        key |-> key]]
            /\ UNCHANGED cache_obs
    /\ UNCHANGED otherThanCache

\* threading.Lock: free for the taking
lock_is_free_always(c) == TRUE
lock_is_free(c) == cache[c].lock = None

\* "with self.cache_lock:" and the test under it: a filled, fresh cache is
\* returned as it is, else the request goes out with the lock held
Cache_Lock(t) ==
    /\ rd[t].pc = "want_lock"
    /\ lock_is_free(rd[t].cache)
    /\ LET c == rd[t].cache
       IN IF cache[c].entries # {} /\ is_fresh(c)
          THEN /\ cache_obs' = Returned(c, rd[t].key, cache[c].entries,
                                        cache[c].age, FALSE)
               /\ rd' = [rd EXCEPT ![t] = IdleReader]
               /\ UNCHANGED cache
          ELSE /\ cache' = [cache EXCEPT ![c].lock = t,
                                         ![c].inflight = @ + 1]
               /\ rd' = [rd EXCEPT ![t].pc = "fetching"]
               /\ UNCHANGED cache_obs
    /\ UNCHANGED <<cache_budget, otherThanCache>>

\* the DVR answers: a 200 replaces the cache and stamps it, anything else
\* leaves it; XML that does not parse leaves program_cache emptied; the
\* with-block releases the lock on every way out
Cache_Response(t, outcome, list) ==
    /\ rd[t].pc = "fetching"
    /\ outcome = "bad_xml" => rd[t].cache = "program"
    /\ outcome # "200" => list = {}
    /\ LET c == rd[t].cache
           entries == IF outcome = "200" THEN list
                      ELSE IF outcome = "bad_xml" THEN {}
                      ELSE cache[c].entries
           age == IF outcome = "200" THEN 0 ELSE cache[c].age
       IN /\ cache' = [cache EXCEPT ![c] = [entries |-> entries,
                                            age |-> age,
                                            lock |-> None,
                                            inflight |-> @.inflight - 1]]
          /\ cache_obs' = IF outcome = "raise" /\ c = "channel"
                          THEN [NoRead EXCEPT !.cache = c, !.result = "raise",
                                              !.attempted = TRUE]
                          ELSE IF outcome # "200" /\ c = "program"
                          THEN \* "if not self.cache_program_data(): return None"
                               Returned(c, rd[t].key, {}, age, TRUE)
                          ELSE Returned(c, rd[t].key, entries, age, TRUE)
    /\ rd' = [rd EXCEPT ![t] = IdleReader]
    /\ UNCHANGED <<cache_budget, otherThanCache>>

\* _update_cache gets its answer ([] on any error) and get_metadata looks the
\* id up; a miss sends the fallback request
VOD_UpdateResponse(t, list) ==
    /\ rd[t].pc = "vod_update"
    /\ LET c == rd[t].cache
       IN IF rd[t].key \in list
          THEN /\ cache' = [cache EXCEPT ![c].entries = list, ![c].age = 0,
                                         ![c].inflight = @ - 1]
               /\ cache_obs' = Returned(c, rd[t].key, list, 0, TRUE)
               /\ rd' = [rd EXCEPT ![t] = IdleReader]
          ELSE /\ cache' = [cache EXCEPT ![c].entries = list, ![c].age = 0]
               /\ rd' = [rd EXCEPT ![t].pc = "vod_fallback"]
               /\ UNCHANGED cache_obs
    /\ UNCHANGED <<cache_budget, otherThanCache>>

\* the fallback list: the item, if it is there, is put in the cache
VOD_FallbackResponse(t, list) ==
    /\ rd[t].pc = "vod_fallback"
    /\ LET c == rd[t].cache
           entries == IF rd[t].key \in list
                      THEN cache[c].entries \cup {rd[t].key}
                      ELSE cache[c].entries
       IN /\ cache' = [cache EXCEPT ![c].entries = entries,
                                    ![c].inflight = @ - 1]
          /\ cache_obs' = Returned(c, rd[t].key, entries, cache[c].age, TRUE)
    /\ rd' = [rd EXCEPT ![t] = IdleReader]
    /\ UNCHANGED <<cache_budget, otherThanCache>>

\* time goes by between the reads
Cache_Tick(d) ==
    /\ \A t \in CacheReaders : rd[t].pc = "idle"
    /\ cache_budget.ticks < MaxCacheTicks
    /\ cache_budget' = [cache_budget EXCEPT !.ticks = @ + 1]
    /\ cache' = [c \in CacheNames |->
                   [cache[c] EXCEPT !.age = IF @ + d > CacheAgeCap
                                            THEN CacheAgeCap ELSE @ + d]]
    /\ UNCHANGED <<rd, cache_obs, otherThanCache>>

NextCache ==
    \/ \E t \in CacheReaders, c \in CacheNames, key \in CacheKeys :
          Cache_Get(t, c, key)
    \/ \E t \in CacheReaders : Cache_Lock(t)
    \/ \E t \in CacheReaders, outcome \in CacheOutcomes,
          list \in SUBSET CacheKeys : Cache_Response(t, outcome, list)
    \/ \E t \in CacheReaders, list \in SUBSET CacheKeys :
          VOD_UpdateResponse(t, list)
    \/ \E t \in CacheReaders, list \in SUBSET CacheKeys :
          VOD_FallbackResponse(t, list)
    \/ \E d \in CacheSteps : Cache_Tick(d)

\* =========================================== RecordingEventsAlert watchdog
\* _watchdog_loop and the bookkeeping of _handle_event it reads.  wd holds
\* the age of _last_event_time, _event_counter, the loop's locals (the age of
\* last_reported_issue, recovery_attempts), which event_lock object the
\* global names (lock, counted from 0) and where the handler stands;
\* lock_health is _lock_health with last_acquisition as an age.  The queue is
\* the detector's pending_recordings.
WdAgeCap == pending_stale_after + watchdog_period
WdCap(a) == IF a > WdAgeCap THEN WdAgeCap ELSE a
NoWdPass == [found |-> FALSE, replaced |-> FALSE, emptied |-> FALSE,
             attempt |-> 0, reported |-> FALSE]
FreshHealth == [last_acquisition |-> WdAgeCap, acquisition_count |-> 0,
                release_count |-> 0]

InitWD ==
    /\ wd = [last_event_age |-> 0, event_counter |-> 0,
             last_reported_issue |-> WdAgeCap, recovery_attempts |-> 0,
             lock |-> 0, pc |-> "idle", held |-> 0, budget |-> MaxWdEvents]
    /\ lock_health = FreshHealth
    /\ wd_obs = NoWdPass

\* _handle_event: the event is counted, and unless the handler returns
\* early it takes event_lock
WD_HandleBegin(acquires) ==
    /\ wd.pc = "idle"
    /\ wd.budget > 0
    /\ wd' = [wd EXCEPT !.last_event_age = 0,
                        !.event_counter = @ + 1,
                        !.budget = @ - 1,
                        !.pc = IF acquires THEN "locked" ELSE "idle",
                        !.held = wd.lock]
    /\ lock_health' = IF acquires
                      THEN [lock_health EXCEPT !.last_acquisition = 0,
                                               !.acquisition_count = @ + 1]
                      ELSE lock_health
    /\ UNCHANGED <<wd_obs, recVars, otherThanWDRec>>

\* the handler's end: a recorded- event whose recording is not processed
\* yet is queued, and the finally releases event_lock; where the watchdog
\* has replaced the lock, release() of the fresh lock raises and the
\* counters are left alone
WD_HandleEnd(queues) ==
    /\ wd.pc = "locked"
    /\ wd' = [wd EXCEPT !.pc = "idle"]
    /\ pending_recordings' =
          IF queues /\ "r1" \notin DOMAIN pending_recordings
          THEN Put(pending_recordings, "r1",
                   [first_seen |-> 0, last_check |-> 0])
          ELSE pending_recordings
    /\ lock_health' = IF wd.held = wd.lock
                      THEN [lock_health EXCEPT !.release_count = @ + 1]
                      ELSE lock_health
    /\ UNCHANGED <<wd_obs, scheduled_recordings, active_recordings,
                   rec_history, rec_settings, rec_evt, rw, recordings,
                   rec_ticks, rec_alerts, rec_trace, rec_obs,
                   otherThanWDRec>>

\* run_cleanup's sweep of the queue: retry_count is never stored, so only
\* the six-hour rule removes an entry
cleanup_pending(pending) ==
    Drop(pending, {f \in DOMAIN pending :
                       pending[f].first_seen > pending_stale_after})

\* the third recovery and every later one reset the queue
resets_queue(attempts) == attempts >= 3

\* one cycle of _watchdog_loop: thirty sleeps of ten seconds, then the
\* checks
WD_Pass ==
    LET d == watchdog_period
        last_event == WdCap(wd.last_event_age + d)
        last_reported == WdCap(wd.last_reported_issue + d)
        held_time == WdCap(lock_health.last_acquisition + d)
        aged == [f \in DOMAIN pending_recordings |->
                   [pending_recordings[f] EXCEPT
                       !.first_seen = WdCap(@ + d),
                       !.last_check = WdCap(@ + d)]]
        stalled == last_event > stall_after /\ wd.event_counter > 0
        reports == stalled /\ last_reported > report_interval
        looks_held == lock_health.acquisition_count > lock_health.release_count
        replaces == reports /\ looks_held /\ held_time > lock_stuck_after
        attempts == IF wd.recovery_attempts + 1 > 3 THEN 3
                    ELSE wd.recovery_attempts + 1
        resets == reports /\ resets_queue(attempts)
        queue == IF ~reports THEN aged
                 ELSE IF resets THEN << >> ELSE cleanup_pending(aged)
    IN /\ wd' = [wd EXCEPT
                    !.last_event_age = IF resets THEN 0 ELSE last_event,
                    !.last_reported_issue = IF reports THEN 0
                                            ELSE last_reported,
                    !.recovery_attempts = IF reports THEN attempts ELSE @,
                    !.lock = IF replaces THEN @ + 1 ELSE @]
       /\ lock_health' = IF replaces THEN FreshHealth
                         ELSE [lock_health EXCEPT
                                  !.last_acquisition = held_time]
       /\ pending_recordings' = queue
       /\ wd_obs' = [found |-> /\ last_event > stall_after
                               /\ looks_held
                               /\ held_time > lock_stuck_after,
                     replaced |-> replaces,
                     emptied |-> queue = << >>,
                     attempt |-> IF reports THEN attempts ELSE 0,
                     reported |-> reports]
       /\ UNCHANGED <<scheduled_recordings, active_recordings,
                      rec_history, rec_settings, rec_evt, rw, recordings,
                      rec_ticks, rec_alerts, rec_trace, rec_obs,
                   otherThanWDRec>>

NextWD ==
    \/ \E acquires \in BOOLEAN : WD_HandleBegin(acquires)
    \/ \E queues \in BOOLEAN : WD_HandleEnd(queues)
    \/ WD_Pass

\* ====================================================== activity recorder
\* record_activity is called by the Channel-Watching handler only, on the
\* thread of the EventMonitor: its calls come one after the other.
ActKeys == {"watching_channel-ABC-tv", "watching_channel-ABC-phone"}
ActSteps == {1, COOLDOWN_PERIOD}
ActCap(a) == IF a > COOLDOWN_PERIOD THEN COOLDOWN_PERIOD ELSE a
NoActCall == [result |-> "none", dropped |-> 0]

\* the file as n earlier calls left it: the newest record first
history_of(n) == [i \in 1..n |-> n + 1 - i]
PriorFiles ==
    {history_of(n) : n \in {0, 1, history_limit - 1, history_limit}}

\* the threads that record: the event thread (_handle_event of the
\* Recording-Events detector), its pending-retry worker and the Disk-Space
\* poller, each with the tracking key of what it records
RecorderThreads == {"event", "retry", "disk"}
RecorderKey(t) ==
    CASE t = "event" -> "recording_event-Started-News-ABC"
      [] t = "retry" -> "recording_event-Completed-News-ABC"
      [] OTHER -> "disk_alert-9.5"
IdleRecorder == [pc |-> "idle", history |-> << >>, new_activity |-> 0]
NoRecorders == [at |-> [t \in RecorderThreads |-> IdleRecorder], written |-> {}]

InitAct ==
    /\ act_file \in PriorFiles
    /\ act_seen = << >>
    /\ act_next = Len(act_file) + 1
    /\ act_calls = 0
    /\ act_obs = NoActCall
    /\ act_rec = NoRecorders

RestAct == InitAct /\ act_file = << >>

should_record_activity(tracking_key) ==
    ~(tracking_key \in DOMAIN act_seen
      /\ act_seen[tracking_key] < COOLDOWN_PERIOD)

\* history.insert(0, new_activity)
insert_first(history, new_activity) == <<new_activity>> \o history

\* if len(history) > 500: history = history[:500]
cap_history_never(history) == history
cap_history(history) ==
    IF Len(history) > history_limit THEN SubSeq(history, 1, history_limit)
    ELSE history

\* record_activity.  With fewer than a hundred tracking keys
\* cleanup_notification_history is not called.  save_history returns False
\* when the file could not be opened, and the file stays as it was.
Act_Record(tracking_key, saved) ==
    /\ act_calls < MaxCalls
    /\ act_calls' = act_calls + 1
    /\ IF ~should_record_activity(tracking_key)
       THEN /\ act_obs' = [result |-> "skipped", dropped |-> 0]
            /\ UNCHANGED <<act_file, act_seen, act_next>>
       ELSE LET history == insert_first(act_file, act_next)
            IN /\ act_seen' = Put(act_seen, tracking_key, 0)
               /\ act_next' = act_next + 1
               /\ act_file' = IF saved THEN cap_history(history)
                              ELSE act_file
               /\ act_obs' =
                      [result |-> IF saved THEN "saved" ELSE "failed",
                       dropped |-> Len(history) - Len(cap_history(history))]
    /\ UNCHANGED <<act_rec, otherThanAct>>

\* time passes between two calls
Act_Tick(d) ==
    /\ act_seen # << >>
    /\ act_calls < MaxCalls
    /\ act_seen' = [k \in DOMAIN act_seen |-> ActCap(act_seen[k] + d)]
    /\ act_seen' # act_seen
    /\ UNCHANGED <<act_file, act_next, act_calls, act_obs, act_rec,
                   otherThanAct>>

\* record_recording_event and record_disk_status up to load_history: the
\* cooldown of the tracking key, the new record, and the list read from the
\* file under file_lock
Act_Load(t) ==
    /\ act_rec.at[t].pc = "idle"
    /\ act_calls < MaxCalls
    /\ act_calls' = act_calls + 1
    /\ IF ~should_record_activity(RecorderKey(t))
       THEN UNCHANGED <<act_seen, act_next, act_rec>>
       ELSE /\ act_seen' = Put(act_seen, RecorderKey(t), 0)
            /\ act_next' = act_next + 1
            /\ act_rec' = [act_rec EXCEPT
                              !.at[t] = [pc |-> "loaded",
                                         history |-> act_file,
                                         new_activity |-> act_next]]
    /\ UNCHANGED <<act_file, act_obs, otherThanAct>>

\* the rest of the recorder: insert, cap, and save_history, which takes
\* file_lock again and writes the list the thread holds
Act_Save(t, saved) ==
    /\ act_rec.at[t].pc = "loaded"
    /\ LET history == insert_first(act_rec.at[t].history,
                                   act_rec.at[t].new_activity)
       IN /\ act_file' = IF saved THEN cap_history(history) ELSE act_file
          /\ act_rec' = [act_rec EXCEPT
                            !.at[t] = IdleRecorder,
                            !.written = IF saved
                                        THEN @ \cup {act_rec.at[t].new_activity}
                                        ELSE @]
    /\ UNCHANGED <<act_seen, act_next, act_calls, act_obs, otherThanAct>>

NextRecorders ==
    \/ \E t \in RecorderThreads : Act_Load(t)
    \/ \E t \in RecorderThreads, saved \in BOOLEAN : Act_Save(t, saved)
    \/ \E d \in ActSteps : Act_Tick(d)

NextAct ==
    \/ \E k \in ActKeys, saved \in BOOLEAN : Act_Record(k, saved)
    \/ \E d \in ActSteps : Act_Tick(d)

\* the components added after the detectors rest
RestExt == InitEM /\ RestCache /\ InitWD /\ RestAct

\* ------------------------------------------------------------------- Spec
NextCW ==
    \/ \E e \in Events : CW_HandleBegin(e)
    \/ CW_Suppress
    \/ CW_Refresh
    \/ \E outcome \in {"hit", "200", "500", "raise"}, result \in BOOLEAN :
          CW_Alert(outcome, result)
    \/ \E e \in Events : CW_EndBegin(e)
    \/ CW_EndWrite
    \/ \E t \in CleanupThreads : CL_Sweep(t)
    \/ \E t \in CleanupThreads : CL_Tracker(t)
    \/ \E t \in CleanupThreads : CL_Write(t)
    \/ Tick

Init == InitCW /\ InitJob /\ InitVOD /\ RestAM /\ RestRec /\ InitDisk /\ RestNM /\ RestExt
Next == NextCW
Spec == Init /\ [][Next]_vars

\* The same detector under a fair scheduler.  A handler that has begun runs
\* to its end (straight-line code), the cleanup thread keeps waking up
\* (_auto_cleanup_thread loops forever around sleep(10)), and time goes on.
NextLive ==
    \/ \E e \in Events : CW_HandleBegin(e)
    \/ CW_Suppress
    \/ CW_Refresh
    \/ \E outcome \in {"hit", "200", "500", "raise"}, result \in BOOLEAN :
          CW_Alert(outcome, result)
    \/ \E e \in Events : CW_EndBegin(e)
    \/ CW_EndWrite
    \/ \E t \in CleanupThreads : CL_Sweep(t)
    \/ \E t \in CleanupThreads : CL_Tracker(t)
    \/ \E t \in CleanupThreads : CL_Write(t)
    \/ LongTick

\* At most one step of a handler is enabled at a time, and at most one step
\* of a cleanup thread: weak fairness of the next step of each is weak
\* fairness of every step.
HandlerStep ==
    \/ CW_Suppress
    \/ CW_Refresh
    \/ \E outcome \in {"hit", "200", "500", "raise"}, result \in BOOLEAN :
          CW_Alert(outcome, result)
    \/ CW_EndWrite
CleanupStep(t) == CL_Sweep(t) \/ CL_Tracker(t) \/ CL_Write(t)
Fairness ==
    /\ WF_vars(HandlerStep)
    /\ \A t \in CleanupThreads : WF_vars(CleanupStep(t))
    /\ WF_vars(LongTick)

SpecLive == Init /\ [][NextLive]_vars /\ Fairness

\* The handler of the detector with two clients that have no device name,
\* only an IP address each.
ClientIPs == {"10.0.0.1", "10.0.0.2"}
ClientEvents ==
    [Name : Sessions,
     Value : {[ch |-> c, dev |-> None, ip |-> i] :
                 c \in Channels, i \in ClientIPs} \cup {EmptyValue}]
NextClients ==
    \/ \E e \in ClientEvents : CW_HandleBegin(e)
    \/ CW_Suppress
    \/ CW_Refresh
    \/ \E outcome \in {"hit", "200", "500", "raise"}, result \in BOOLEAN :
          CW_Alert(outcome, result)
    \/ \E e \in ClientEvents : CW_EndBegin(e)
    \/ CW_EndWrite
SpecClients == Init /\ [][NextClients]_vars

\* The JobInfoProvider and the threads that call it; the detector rests.
RestCW == InitCW /\ channel_cache = {} /\ stream_count_enabled = FALSE
InitJobs == RestCW /\ InitJob /\ InitVOD /\ RestAM /\ RestRec /\ InitDisk /\ RestNM /\ RestExt
SpecJob == InitJobs /\ [][NextJob]_vars

\* The VOD-Watching detector; the Channel-Watching detector rests.
InitVODs == RestCW /\ InitJob /\ InitVOD /\ RestAM /\ RestRec /\ InitDisk /\ RestNM /\ RestExt

\* The dispatch of AlertManager; the detectors rest.
InitDispatch == RestCW /\ InitJob /\ InitVOD /\ InitAM /\ RestRec /\ InitDisk /\ RestNM /\ RestExt
SpecDispatch == InitDispatch /\ [][NextAM]_vars
SpecVOD == InitVODs /\ [][NextVOD]_vars

\* the Disk-Space poller on its own
InitDisks ==
    RestCW /\ InitJob /\ InitVOD /\ RestAM /\ RestRec /\ InitDisk /\ RestNM /\ RestExt
SpecDisk == InitDisks /\ [][NextDisk]_vars

\* the poller with its health checker and its recovery threads
SpecDiskThreads == InitDisks /\ [][NextDiskThreads]_vars

\* send_notification on its own, over every registry
InitNotify ==
    RestCW /\ InitJob /\ InitVOD /\ RestAM /\ RestRec /\ InitDisk /\ InitNM /\ RestExt
SpecNotify == InitNotify /\ [][NextNM]_vars

\* the Recording-Events detector on its own
InitRecs == RestCW /\ InitJob /\ InitVOD /\ RestAM /\ InitRec /\ InitDisk /\ RestNM /\ RestExt
SpecRec == InitRecs /\ [][NextRec]_vars

\* the same detector with every alert enabled, over every combination of the
\* cancelled, completed and delayed fields of the recording
InitRecStatus ==
    /\ RestCW /\ InitJob /\ InitVOD /\ RestAM /\ InitDisk /\ RestNM /\ RestExt
    /\ scheduled_recordings = {}
    /\ active_recordings = {}
    /\ pending_recordings = << >>
    /\ rec_history = << >>
    /\ rec_settings = AllEnabled
    /\ rec_evt = RecIdle
    /\ rw = RwSleep
    /\ recordings \in [RecFiles -> AnyRecordings]
    /\ rec_ticks = 0
    /\ rec_alerts = << >>
    /\ rec_trace = << >>
    /\ rec_obs = NoEmission
SpecRecStatus == InitRecStatus /\ [][NextRec]_vars

\* the same detector with every alert enabled and the ages of its alerts
\* observed
InitRecCooldown ==
    /\ RestCW /\ InitJob /\ InitVOD /\ RestAM /\ InitDisk /\ RestNM /\ RestExt
    /\ scheduled_recordings = {}
    /\ active_recordings = {}
    /\ pending_recordings = << >>
    /\ rec_history = << >>
    /\ rec_settings = AllEnabled
    /\ rec_evt = RecIdle
    /\ rw = RwSleep
    /\ recordings \in [RecFiles -> PlainRecordings]
    /\ rec_ticks = 0
    /\ rec_alerts = << >>
    /\ rec_trace = << >>
    /\ rec_obs = [NoEmission EXCEPT !.on = TRUE]
SpecRecCooldown == InitRecCooldown /\ [][NextRec]_vars

\* the detector with every alert enabled and its threads scheduled fairly:
\* a handler that holds event_lock runs to its finally, and _retry_loop is
\* a "while True" whose cycle runs every retry_interval seconds
InitRecLive == InitRecs /\ rec_settings = AllEnabled
FairnessRec ==
    /\ WF_vars(\E alert_sent \in BOOLEAN : Rec_HandleEnd(alert_sent))
    /\ WF_vars(Rec_RetrySnapshot(retry_interval))
    /\ WF_vars(Rec_RetryCheck)
    /\ WF_vars(Rec_RetryDelete)
SpecRecLive == InitRecLive /\ [][NextRec]_vars /\ FairnessRec

\* every detector rests
RestDetectors ==
    RestCW /\ InitJob /\ InitVOD /\ RestAM /\ RestRec /\ InitDisk /\ RestNM

\* the EventMonitor's thread on its own
InitMonitor == RestDetectors /\ InitEM /\ RestCache /\ InitWD /\ RestAct
SpecMonitor == InitMonitor /\ [][NextEM]_vars

\* the info caches and their readers on their own
InitCaches == RestDetectors /\ InitEM /\ InitCache /\ InitWD /\ RestAct
SpecCache == InitCaches /\ [][NextCache]_vars

\* the watchdog, the handler it watches and the queue it resets
InitWatchdog == RestDetectors /\ RestExt
SpecWatchdog == InitWatchdog /\ [][NextWD]_vars

\* the activity recorder on its own, over the files earlier runs left
InitActivity == RestDetectors /\ InitEM /\ RestCache /\ InitWD /\ InitAct
SpecActivity == InitActivity /\ [][NextAct]_vars

\* the recorders of the other detectors, each on its own thread
SpecRecorders == InitActivity /\ [][NextRecorders]_vars

\* ================================================================= claims
Quiescent == evt.pc = "idle" /\ \A t \in CleanupThreads : cl[t].pc # "cl_write"

\* C1: the Channel-Watching detector never emits two alerts for the same
\* tracking key less than alert_cooldown (5) seconds apart: every delivered
\* alert comes at least 5 seconds after the previous alert of its key.
C1_CooldownBetweenAlerts ==
    obs.alert # NoAlert => obs.alert.gap >= alert_cooldown
\* a second alert of a key has been delivered
C1_Witness ==
    obs.alert # NoAlert /\ obs.alert.gap < AgeCap

\* C2: no two active sessions of the Session Store carry the same device.
C2_OneSessionPerDevice ==
    \A a, b \in DOMAIN active_sessions :
        a # b => active_sessions[a].device # active_sessions[b].device
\* a watching event evicted the device's other session and stored its own
C2_Witness ==
    /\ obs.done /\ obs.exited # {} /\ obs.alert # NoAlert
    /\ obs.lastEv.Name \in DOMAIN active_sessions

\* C3: whenever no process_activity or cleanup_stale_sessions call is in
\* progress, stream_count.txt holds the number of devices in device_sessions
\* (which is the count the Stream Tracker reports).
C3_FileMatchesCount ==
    Quiescent => stream_count_file = Cardinality(DOMAIN device_sessions)

\* C4: send_notification is never called while the detector's event lock is
\* held.
C4_NoSendUnderLock ==
    obs.sendLock \in {"nosend", None}

\* C5: no HTTP request goes to the DVR from a thread that holds a detector's
\* event lock.
C5_NoHttpUnderLock ==
    obs.httpLock \in {"nohttp", None}

\* C6: no read of the job cache blocks forever on the cache lock: a caller
\* of get_all_jobs or get_job_by_id never waits for the lock while it is
\* itself the holder (a wait that cannot end, the lock not being reentrant).
C6_ReadNeverWaitsOnOwnLock ==
    \A t \in JobThreads : ~(jt[t].pc = "cj_lock" /\ job_lock = t)

\* C7: when a device with an active session on channel A sends a watching
\* event for another channel B, an "Exited" line for channel A is logged
\* before the alert for B, and afterwards the Session Store holds no session
\* of that device on channel A.
C7_SwitchExitsOldChannel ==
    (evt.pc = "idle" /\ obs.done /\ obs.hadOld # {} /\ obs.alert # NoAlert) =>
        \A A \in obs.hadOld :
            /\ <<obs.lastEv.Value.dev, A>> \in obs.alert.exitedBefore
            /\ ~\E s \in DOMAIN active_sessions :
                   /\ active_sessions[s].device = obs.lastEv.Value.dev
                   /\ active_sessions[s].number = A

C9_SessionEventuallyRemoved ==
    \A s \in Sessions : []<>(s \notin DOMAIN active_sessions)
\* a cleanup sweep has removed a session that saw no end event
C9_Witness ==
    obs.swept /\ obs.lastEv # NoEvent /\ obs.lastEv.Name \notin DOMAIN active_sessions

\* C10: after an end event (empty Value) with a VOD Name has gone through
\* process_event, the session vod<fileId>-<sessionIdentifier> is absent
\* from the detector's active_sessions.
C10_EndEventRemovesSession ==
    vod_obs.ended # NoKey => vod_obs.ended \notin DOMAIN vod_active_sessions

\* C11: an event for an existing VOD session that arrives before
\* vod_alert_cooldown has elapsed since the last notification emits a
\* notification (when the alert can be delivered) if its position differs
\* from the last notified position by at least vod_significant_threshold
\* seconds, and emits none if the difference is smaller.
C11_ThresholdBypassesCooldown ==
    (vod_obs.route = "handle" /\ vod_obs.within) =>
        IF vod_obs.moved >= vod_significant_threshold
        THEN vod_obs.deliverable => vod_obs.alert
        ELSE ~vod_obs.alert

\* C12: every parsed event other than hello is passed to process_event of
\* every registered detector, in registration order, whatever the detectors
\* earlier in the order return.
C12_EveryDetectorCalled ==
    (dispatch.pc = "idle" /\ dispatch.type \notin {NoType, "hello"}) =>
        dispatch.called = alert_instances

\* --------------------------------------------------- Recording-Events claims
\* the events of the trace and the alerts that are about one job or file
CreatedFuture(j) ==
    [type |-> "jobs.created", prefix |-> "", id |-> j, job |-> Future,
     recording |-> "none"]
Deleted(j) ==
    [type |-> "jobs.deleted", prefix |-> "", id |-> j, job |-> NoJob,
     recording |-> "none"]
Started(j) ==
    [type |-> "programs.set", prefix |-> "recording-", id |-> j,
     job |-> Soon, recording |-> "none"]
Recorded(f, state) ==
    [type |-> "programs.set", prefix |-> "recorded-", id |-> f,
     job |-> NoJob, recording |-> state]
IsJobEvent(e) == e.prefix # "recorded-"
JobTrace == SelectSeq(rec_trace, IsJobEvent)
IsJobAlert(a) == a.id \in RecJobs
JobAlerts == SelectSeq(rec_alerts, IsJobAlert)
IsFileAlert(a) == a.id \in RecFiles
FileAlerts == SelectSeq(rec_alerts, IsFileAlert)
RecQuiet == rec_evt.pc = "idle" /\ rw.pc = "sleep"

alert_transition(a) ==
    IF a.status = "Scheduled" THEN "scheduled"
    ELSE IF a.status \in {"Recording (Scheduled)", "Recording (Manual)"}
    THEN "started"
    ELSE IF a.status = "Cancelled" /\ a.id \in RecJobs THEN "cancelled"
    ELSE "completed"
Transitions == [i \in 1..Len(rec_alerts) |-> alert_transition(rec_alerts[i])]
IfOn(toggle, t) == IF rec_settings[toggle] THEN <<t>> ELSE << >>

\* C14: once jobs.created (future start), programs.set recording-<job> and
\* programs.set recorded-<file> have been handled for a recording that is
\* processed, the alerts are exactly one for each of the three transitions
\* whose rd_alert_* toggle is on, in order, and none for one that is off.
C14_OneAlertPerEnabledTransition ==
    \A j \in RecJobs, f \in RecFiles :
        (/\ RecQuiet
         /\ rec_trace = <<CreatedFuture(j), Started(j),
                          Recorded(f, "processed")>>)
        => Transitions = IfOn("scheduled", "scheduled")
                         \o IfOn("started", "started")
                         \o IfOn("completed", "completed")

\* C15: the outcome named by every alert about a processed recording is the
\* one the table gives for its (cancelled, completed, delayed): (F, T, F)
\* Completed; (F, T, T) Completed (Delayed); (F, F, any) Completed
\* (Interrupted); (T, T, any) Stopped; (T, F, any) Cancelled.
C15_CompletionOutcome ==
    \A i \in 1..Len(FileAlerts) :
        LET r == recordings[FileAlerts[i].id]
        IN FileAlerts[i].status =
               IF r.cancelled
               THEN IF r.completed THEN "Stopped" ELSE "Cancelled"
               ELSE IF ~r.completed THEN "Completed (Interrupted)"
               ELSE IF r.delayed THEN "Completed (Delayed)"
               ELSE "Completed"

IsRecorded(e) == e.prefix = "recorded-"
RecordedTrace == SelectSeq(rec_trace, IsRecorded)
\* the one recorded- event found the recording f not yet processed, and
\* the retry worker has now been told that it is processed
ReportedProcessed(f) ==
    /\ RecordedTrace = <<Recorded(f, "unprocessed")>>
    /\ rw.pc = "delete"
    /\ Head(rw.items) = f
    /\ rw.recording = "processed"
AlertedAndDropped(f) ==
    /\ f \notin DOMAIN pending_recordings
    /\ FileAlerts = <<RecAlert("Completed", f)>>

\* C16: for a single recorded-<fileId> event whose recording is reported
\* unprocessed first and processed later, there is never more than one
\* completion alert, no completion alert exists while the recording is not
\* processed, exactly one exists once the lookup has reported it processed,
\* and from then on the file eventually leaves the pending queue.
C16_OneAlertAfterProcessed ==
    /\ [](\A f \in RecFiles :
            /\ Len(RecordedTrace) <= 1 => Len(FileAlerts) <= 1
            /\ FileAlerts # << >> => recordings[f].state = "processed"
            /\ ReportedProcessed(f)
                   => FileAlerts = <<RecAlert("Completed", f)>>)
    /\ \A f \in RecFiles :
           ReportedProcessed(f) ~> (f \notin DOMAIN pending_recordings)
C16_Witness ==
    /\ RecQuiet
    /\ rec_trace = <<Recorded("r1", "unprocessed")>>
    /\ rec_ticks = 0
    /\ AlertedAndDropped("r1")

\* C17: whenever the retry worker has looked up a queue entry whose
\* recording is not processed (unprocessed or not found) and whose
\* first_seen lies more than 10 minutes back, it goes on to delete the entry.
C17_TimedOutEntryRemoved ==
    [][(/\ rw.pc = "check"
        /\ rw' # rw
        /\ recordings[Head(rw.items)].state # "processed"
        /\ pending_recordings[Head(rw.items)].first_seen > max_wait_time)
       => rw'.pc = "delete"]_vars

\* ---------------------------------------------------------- Disk-Space claims
\* the last poll got sizes it could use, and what they say
PollLow ==
    /\ ds_obs.checked
    /\ \/ ds_obs.info.free * 100 < percent_threshold * ds_obs.info.total
       \/ ds_obs.info.free < gb_threshold
PollHealthy ==
    /\ ds_obs.checked
    /\ ds_obs.info.free * 100 >= percent_threshold * ds_obs.info.total
    /\ ds_obs.info.free >= gb_threshold

\* C18: a poll emits a low-disk alert only if it finds free percent below
\* the percent threshold or free space below the gb threshold, and the last
\* low-disk alert before it lies at least 1 hour back; so two low-disk
\* alerts are never less than 1 hour apart.
C18_AlertsAnHourApart ==
    ds_obs.alerted => PollLow /\ ds_obs.since >= cooldown_period

\* C19: a poll that finds the disk healthy emits no alert and leaves the
\* alert_sent latch cleared.
C19_HealthyPollClearsLatch ==
    PollHealthy => ~ds_obs.alerted /\ ~ds_alert_sent
C19_Witness ==
    /\ PollHealthy
    /\ ds_obs.was_sent
    /\ ~ds_obs.alerted
    /\ ~ds_alert_sent
    /\ ds_obs.since < cooldown_period

\* ------------------------------------------------------- notification claims
IsConfigured(p) == p \in configured
IsSuccess(a) == a = "success"

\* C20: when send_notification returns, it has called every configured
\* provider exactly once, in registration order, whatever the earlier ones
\* answered or raised, and its result is true exactly if some provider
\* reported success.
C20_EveryProviderOnce ==
    send.pc = "done" =>
        /\ send.called = SelectSeq(providers, IsConfigured)
        /\ send.overall_success = (SelectSeq(send.answers, IsSuccess) # << >>)
C20_Witness ==
    /\ send.pc = "done"
    /\ send.called = <<"Pushover", "Apprise">>
    /\ send.answers = <<"raise", "success">>
    /\ send.overall_success
\* C21: after each failed or dropped connection the monitor sleeps the
\* current delay before it connects again (a connection attempt beyond the
\* first follows a wait of its own), the first wait is 5 s, every later wait
\* is twice the one before it or 60 s where twice would be more, and no
\* wait exceeds 60 s.
Doubled(d) == IF 2 * d > 60 THEN 60 ELSE 2 * d
C21_ReconnectBackoff ==
    LET waits == em_obs.waits
    IN /\ em_obs.attempts <= Len(waits) + 1
       /\ Len(waits) >= 1 => waits[1] = 5
       /\ \A i \in 2..Len(waits) : waits[i] = Doubled(waits[i - 1])
       /\ \A i \in 1..Len(waits) : waits[i] <= 60
\* the monitor has waited 5, 10, 20, 40 and 60 s, and 60 s again, and is
\* connecting for the seventh time
C21_Witness ==
    /\ em_obs.waits = <<5, 10, 20, 40, 60, 60>>
    /\ em_obs.attempts = 7

\* C22: every received line that parses neither as JSON nor, after a
\* leading "data:", as JSON adds one to the error counter, reaches no
\* detector, and leaves the read loop running for the next line.
Unparsable(line) ==
    /\ line # EmptyLine
    /\ json_loads(line) = JSONDecodeError
    /\ ~(startswith_data(line) /\ json_loads(after_data(line)) # JSONDecodeError)
C22_UnparsableLineCounted ==
    (em_obs.lines > 0 /\ Unparsable(em_obs.line)) =>
        /\ em_obs.errors = 1
        /\ em_obs.dispatched = 0
        /\ em_obs.continued

\* C23: no read of a cache returns as a hit an entry whose timestamp is ttl
\* or more old unless that read first tried a refresh; this holds for
\* get_channel_info of a channel number that is in the cache.
C23_NoStaleHit ==
    (cache_obs.result = "hit" /\ cache_obs.age >= cache_ttl(cache_obs.cache))
        => cache_obs.attempted

\* C24: in each of the three caches, at most one refresh request to the DVR
\* has been sent and not yet answered, however the threads that read the
\* cache interleave.
C24_SingleFlight ==
    \A c \in CacheNames : cache[c].inflight <= 1
\* the SSE thread's request for the channel list is in flight while the
\* retry worker waits for the cache lock
C24_Witness ==
    /\ rd["sse"].pc = "fetching" /\ rd["sse"].cache = "channel"
    /\ rd["retry"].pc = "want_lock" /\ rd["retry"].cache = "channel"
    /\ cache["channel"].inflight = 1

\* C25: a pass of the watchdog that finds the last recording event more
\* than 30 minutes old and the event lock held, by its bookkeeping, for more
\* than 20 minutes replaces the event lock and leaves the pending queue
\* empty in that same pass.
C25_WatchdogResets ==
    wd_obs.found => (wd_obs.replaced /\ wd_obs.emptied)

\* C26: for every notification key of the Recording-Events detector, an
\* alert that goes out, from an event handler or from the pending-retry
\* worker, comes at least rec_alert_cooldown (60) seconds after the previous
\* alert of that key that went out.
C26_RecordingCooldown ==
    rec_obs.pair => rec_obs.gap >= rec_alert_cooldown
\* a second alert of a key has gone out
C26_Witness ==
    rec_obs.pair /\ rec_obs.gap >= rec_alert_cooldown

\* C27: after any sequence of calls of record_activity the history file
\* holds at most history_limit (500) records with the newest first, and
\* a call that saves puts its record at the head and drops exactly the
\* records past the 500th from the tail.
NewestFirst(history) ==
    \A i \in 1..Len(history) - 1 : history[i] > history[i + 1]
RecordSaved ==
    /\ act_calls' = act_calls + 1
    /\ act_obs'.result = "saved"
Front(trace) == SubSeq(trace, 1, Len(trace) - 1)
Last(trace) == trace[Len(trace)]
RECURSIVE membership_all_on(_)
membership_all_on(trace) ==
    IF trace = << >> THEN [scheduled |-> {}, active |-> {}]
    ELSE LET m == membership_all_on(Front(trace))
             e == Last(trace)
         IN CASE e.type = "jobs.created" ->
                     IF e.job = NoJob \/ ~is_scheduled(e.job) THEN m
                     ELSE [scheduled |-> m.scheduled \cup {e.id},
                           active |-> m.active \cup {e.id}]
              [] e.type = "jobs.deleted" ->
                     IF e.id \in m.scheduled
                     THEN [m EXCEPT !.scheduled = m.scheduled \ {e.id}]
                     ELSE [m EXCEPT !.active = m.active \ {e.id}]
              [] e.prefix = "recording-" ->
                     IF e.job = NoJob THEN m
                     ELSE [scheduled |-> m.scheduled \ {e.id},
                           active |-> m.active \cup {e.id}]
              [] OTHER -> m

\* C28: after any sequence of jobs.created, programs.set recording-<id> and
\* jobs.deleted events, the job ids in scheduled and in active are the ones
\* the same events leave there with every toggle on: whether
\* rd_alert_scheduled, rd_alert_started or rd_alert_cancelled is off makes
\* no difference to the two maps.
C28_MembershipIgnoresToggles ==
    (rec_evt.pc = "idle" /\ rec_trace = JobTrace)
        => /\ scheduled_recordings = membership_all_on(rec_trace).scheduled
           /\ active_recordings = membership_all_on(rec_trace).active

\* C29: while rd_alert_completed is off no alert about a recording file
\* (Completed, Stopped, Cancelled and their variants) is handed to
\* send_alert, by the handler of recorded-<fileId> or by the retry worker,
\* with Stream Count on or off.
C29_NoCompletionAlertWhenDisabled ==
    ~rec_settings.completed => FileAlerts = << >>

\* C30: in every reachable state of the Recording-Events detector no job id
\* is in scheduled and in active at the same time.
C30_ScheduledActiveDisjoint ==
    scheduled_recordings \cap active_recordings = {}

\* -------------------------------------------------- Stream Tracker claims
\* C31: active_streams never holds two sessions of the same device: once
\* process_activity has recorded a watching activity of a device under a
\* session, a session the device was mapped to before is gone from
\* active_streams.
C31_OneStreamPerDevice ==
    \A s1, s2 \in DOMAIN active_streams :
        active_streams[s1].device = active_streams[s2].device => s1 = s2

\* C32: every entry device_sessions[d] = s refers to a session s that is in
\* active_streams with active_streams[s].device = d.
C32_DeviceSessionsPointAtStreams ==
    \A d \in DOMAIN device_sessions :
        /\ device_sessions[d] \in DOMAIN active_streams
        /\ active_streams[device_sessions[d]].device = d

\* the step that finishes the handling of the end event of session s
EndEvent(s) == [Name |-> s, Value |-> EmptyValue]
EndProcessed(s) ==
    \/ CW_EndBegin(EndEvent(s)) /\ evt'.pc = "idle"
    \/ CW_EndWrite /\ evt.ev.Name = s

\* C33: with Stream Count enabled, once the end event of a session has been
\* processed the session is not in active_streams and no device maps to
\* it, whether or not a session was stored for it.
C33_EndEventClearsStream ==
    [][\A s \in Sessions :
          (stream_count_enabled /\ EndProcessed(s))
              => /\ s \notin DOMAIN active_streams'
                 /\ \A d \in DOMAIN device_sessions' :
                        device_sessions'[d] # s]_vars

\* what identifies the device of a stored session: its name, or its IP
\* address when it has no name
SessionDevice(session) ==
    IF session.device # UnknownDevice THEN session.device ELSE session.ip

\* C34: the handling of a watching event removes (and logs as exited) only
\* sessions of the device the event comes from; two clients known by
\* different IP addresses only keep their sessions apart.
C34_OtherDevicesUntouched ==
    [][(evt.pc = "cw_gate" /\ evt'.pc = "idle")
          => \A s \in DOMAIN active_sessions \ DOMAIN active_sessions' :
                SessionDevice(active_sessions[s])
                    = TrackingKey(evt.ev.Value)[2]]_vars

\* ------------------------------------------------------ concurrency claims
\* the steps a thread of the Recording-Events detector takes with the event
\* lock in its hands: a handler between acquire and release, and the two
\* locked phases of the retry worker
RecMaps ==
    <<scheduled_recordings, active_recordings, DOMAIN pending_recordings>>
RecLockedStep ==
    \/ \E alert_sent \in BOOLEAN : Rec_HandleEnd(alert_sent)
    \/ \E d \in RecSleeps : Rec_RetrySnapshot(d) /\ ~event_lock_held
    \/ Rec_RetryDelete /\ ~event_lock_held

\* C35: every step that adds an id to or removes an id from scheduled,
\* active or pending is taken by a thread that holds the event lock.
C35_MapsChangeUnderLock ==
    [][RecMaps' # RecMaps => RecLockedStep]_vars

\* The steps of the SSE thread: each reaches the three maps through the
\* methods of SessionManager, which take SessionManager.lock.
SessionMaps ==
    <<DOMAIN active_sessions, DOMAIN processing_events,
      DOMAIN notification_history>>
SessionStoreStep ==
    \/ \E e \in Events : CW_HandleBegin(e)
    \/ HandlerStep
    \/ \E e \in Events : CW_EndBegin(e)

\* C36: every step that adds a key to or removes a key from active_sessions,
\* processing_events or notification_history is a step made through the
\* Session Store's methods, i.e. with its mutex held; the cleanup sweep on
\* its own thread changes none of the maps outside the mutex.
C36_SessionMapsChangeUnderMutex ==
    [][SessionMaps' # SessionMaps => SessionStoreStep]_vars

\* C37: the handler's release of the event lock goes to the lock object the
\* handler acquired, also when the watchdog has replaced the lock in between.
C37_ReleaseSameLock ==
    [][(\E queues \in BOOLEAN : WD_HandleEnd(queues)) => wd.held = wd.lock]_vars

\* C38: with several threads recording, every record whose save succeeded
\* is in the activity file unless the file is at its cap of 500 records:
\* no recorder's save overwrites a record another recorder has added.
C38_NoRecordLost ==
    \A r \in act_rec.written :
        \/ \E i \in 1..Len(act_file) : act_file[i] = r
        \/ Len(act_file) = history_limit

\* C39: while monitoring is on, at most one polling loop of the Disk-Space
\* detector is alive, also after the health checker has stopped and
\* started the monitoring again.
C39_OnePollingLoop ==
    dm.running => Cardinality(alive_loops(dm)) <= 1

\* C40: the reconnect delay of the event monitor never decreases, whatever
\* the connection does: a connection that succeeds and later drops leaves
\* the delay where the failures before it brought it.
C40_DelayNeverDecreases ==
    [][em'.reconnect_delay >= em.reconnect_delay]_vars
\* a connection has succeeded and delivered a line, every connection so far
\* has ended, and the third wait was 20 s
C40_Witness ==
    /\ em_obs.lines >= 1
    /\ em_obs.waits = <<5, 10, 20>>
    /\ em.reconnect_delay = 40

====
